---- MODULE Spec2Model ----
(***************************************************************************)
(* The escrow ledger of Connect-Dev: contract VideoCallEscrow              *)
(* (src/src/contracts/VideoCallEscrow.sol) as a state machine.             *)
(*                                                                         *)
(* A transaction is one step, except completeCall paying a developer that  *)
(* is a contract: the value transfer hands control to the developer's      *)
(* code, which may call the ledger again before it returns or reverts.     *)
(* That window is modelled by a stack of open transfers; each entry keeps  *)
(* the state to restore if the transfer reverts.                           *)
(***************************************************************************)
EXTENDS Integers, Sequences, FiniteSets, TLC

(* ------------------------------ bounds -------------------------------- *)
\* Largest value (in base units) a sender attaches to createCall; every
\* externally owned account starts with this many units.
MaxValue == 1
\* Largest block timestamp.
MaxTime == 2

NullAddr == 0
\* Externally owned accounts and accounts that hold code.
EOAs == {1, 2}
Contracts == {3}
Accounts == EOAs \cup Contracts
\* bytes32 call ids.
CallIds == {1, 2}

Values == 0..MaxValue
\* createCall only tests duration == 0 and stores the value, and nothing in
\* the ledger reads it again: 0 and one positive duration are its cases.
Durations == {0, 1}

(* ------------------------------ state --------------------------------- *)
VARIABLES
    calls,        \* mapping(bytes32 => Call) calls
    balance,      \* address(this).balance
    bal,          \* the balance of every account
    now,          \* block.timestamp
    stack,        \* the open value transfers of completeCall, innermost last
    escrowed,     \* history: value taken in by createCall, per call id
    released,     \* history: value sent out by completeCall, per call id
    completions,  \* history: number of completeCalls that passed their guards, per call id
    last,         \* history: the ledger operation that ended last, and how
    svcPc,        \* Web3Service: where the running call of the service is
    req,          \* Web3Service: the arguments of that call and the connected account
    attempts,     \* Web3Service.completeCall: let attempts
    receipt,      \* Web3Service.completeCall: let receipt
    sent,         \* the transactions handed to the wallet, in order, each with its fate
    result,       \* Web3Service: what the call returned or threw
    checks,       \* history: how the local check, the dry run and the re-read ended
    session,      \* the session record of the store (document calls/{callId})
    ui,           \* VideoCall: the React state of each party's view
    listeners,    \* VideoCall: the store subscriptions of each view
    ending,       \* VideoCall: where the end routine of each view is
    paying,       \* VideoCall: the processPayment calls of each view that are running
    submissions,  \* history: the calls of web3Service.completeCall made by each view
    replays,      \* history: the notifications the store has delivered again
    opening,      \* VideoCall: where initializeCall and the time request of each view are
    clock,        \* the store's time, each party's local clock, the startTime written
    lobby,        \* the dashboards: what each party's dashboard shows and waits for
    trip,         \* an amount on its way through createCall and getCallDetails
    gas           \* a method of the service from its gas estimate to its submission

ledgerVars == <<calls, balance, bal, now, stack, escrowed, released, completions, last>>

serviceVars == <<svcPc, req, attempts, receipt, sent, result, checks>>

sessionVars ==
    <<session, ui, listeners, ending, paying, submissions, replays, opening, clock>>

dashboardVars == <<lobby>>

conversionVars == <<trip, gas>>

\* What no ledger operation touches.
offLedger == <<serviceVars, sessionVars, dashboardVars, conversionVars>>

\* What no call of the service touches, the ledger apart.
offService == <<sessionVars, dashboardVars, conversionVars>>

\* What the session view does not touch.
offSession == <<ledgerVars, serviceVars, dashboardVars, conversionVars>>

vars == <<ledgerVars, serviceVars, sessionVars, dashboardVars, conversionVars>>

\* The value of an unset mapping slot.
NoCall ==
    [client |-> NullAddr, developer |-> NullAddr, amount |-> 0, duration |-> 0,
     startTime |-> 0, isActive |-> FALSE, isCompleted |-> FALSE, isPaid |-> FALSE]

\* Everything a revert restores.
World ==
    [calls |-> calls, balance |-> balance, bal |-> bal, escrowed |-> escrowed,
     released |-> released, completions |-> completions]

\* The state as of the last transaction that ended: inside an open transfer
\* it is the state the outermost completeCall started from.
Committed == IF stack = <<>> THEN World ELSE stack[1].pre

\* Who can call the ledger now: any account between transactions, only code
\* while a transfer is open.
Senders == IF stack = <<>> THEN Accounts ELSE Contracts

\* The state variables take the values of world w.
Apply(w) ==
    /\ calls' = w.calls
    /\ balance' = w.balance
    /\ bal' = w.bal
    /\ escrowed' = w.escrowed
    /\ released' = w.released
    /\ completions' = w.completions

\* The ledger right after its constructor; no externally owned account has
\* spent anything yet.
InitWorld ==
    [calls |-> [id \in CallIds |-> NoCall],
     balance |-> 0,
     bal |-> [a \in Accounts |-> IF a \in EOAs THEN MaxValue ELSE 0],
     escrowed |-> [id \in CallIds |-> 0],
     released |-> [id \in CallIds |-> 0],
     completions |-> [id \in CallIds |-> 0]]

\* No call of the service has been made.
NoRequest ==
    [op |-> "none", account |-> NullAddr, callId |-> "", developer |-> NullAddr,
     duration |-> 0, amount |-> 0]

NoResult == [ok |-> FALSE, text |-> <<>>]

NoChecks == [local |-> "none", dryRun |-> "none", isPaid |-> "none"]

ServiceIdle ==
    /\ svcPc = "idle"
    /\ req = NoRequest
    /\ attempts = 0
    /\ receipt = "null"
    /\ sent = <<>>
    /\ result = NoResult
    /\ checks = NoChecks

\* The ledger's variables hold world w; Apply is its primed twin.
Holds(w) ==
    /\ calls = w.calls
    /\ balance = w.balance
    /\ bal = w.bal
    /\ escrowed = w.escrowed
    /\ released = w.released
    /\ completions = w.completions

\* No dashboard is open: the client's shows no Start Call button and has no
\* subscription to the record, the developer's lists no request and has no
\* handleAcceptCall running.
NoLobby ==
    [client |-> [at |-> "none", start |-> FALSE, paidWatch |-> FALSE, watching |-> 0,
                 inbox |-> <<>>],
     developer |-> [at |-> "none", requests |-> FALSE, accept |-> "idle",
                    watching |-> FALSE, inbox |-> <<>>, query |-> <<>>]]

\* No amount is on its way: none entered, none read back.
NoTrip == [pc |-> "none", amount |-> <<0, 0>>, read |-> 0]

\* No method of the service is at its gas estimate.
NoGas ==
    [op |-> "none", pc |-> "none", estimate |-> <<"none", 0>>, gasLimit |-> 0,
     submitted |-> FALSE, thrown |-> FALSE]

\* The two parties of a session, each with a view of its own.
Views == {"client", "developer"}

\* The fields of the session record the views decide on.
NoSession ==
    [status |-> "none", requiresPayment |-> FALSE, paymentReleased |-> FALSE,
     paymentError |-> FALSE, endedBy |-> "none", endReason |-> "none"]

\* A subscription that is not set up.
NoListener == [on |-> FALSE, isCallEnding |-> FALSE, inbox |-> <<>>]

\* The subscriptions of a view to the record: the one for requiresPayment,
\* the one for the status, the one of fetchCallData and the one of
\* initializeCall.
Kinds == {"payment", "status", "data", "updates"}

\* useState<number | null>(null): the timeLeft that is not set.
NullTime == -1

\* No end routine runs; writes counts the status updates the routines of
\* the view have made.
NoEnding == [pc |-> "idle", reason |-> "none", cause |-> "none", writes |-> 0]

\* Nothing of a view's start is under way, no countdown was started and no
\* handler has found the time of the session used up.
NoOpening ==
    [init |-> "none", stamp |-> FALSE, expired |-> FALSE,
     countdown |-> [started |-> FALSE, initial |-> 0, startedAt |-> 0,
                    cancelled |-> FALSE]]

\* The local clocks a browser may have, as seconds ahead of the store's.
Skews == {0, 1}

\* The store's time with every local clock in step, and a record started
\* at that time.
NoClock ==
    [server |-> 1, skew |-> [v \in Views |-> 0], startTime |-> 1, startedAt |-> 1,
     duration |-> 0]

\* No session view is open.
ViewsClosed ==
    /\ ui = [v \in Views |-> [mounted |-> FALSE, callData |-> FALSE,
                              isCallEnding |-> FALSE, timeLeft |-> NullTime,
                              timerInterval |-> 0, intervals |-> {},
                              callInitialized |-> FALSE]]
    /\ listeners = [v \in Views |-> [k \in Kinds |-> NoListener]]
    /\ ending = [v \in Views |-> NoEnding]
    /\ paying = [v \in Views |-> 0]
    /\ submissions = [v \in Views |-> 0]
    /\ replays = 0
    /\ opening = [v \in Views |-> NoOpening]
    /\ clock = NoClock

\* No record, no view, no dashboard.
SessionClosed ==
    /\ session = NoSession
    /\ ViewsClosed
    /\ lobby = NoLobby
    /\ trip = NoTrip
    /\ gas = NoGas

Init ==
    /\ Holds(InitWorld)
    /\ now = 1
    /\ stack = <<>>
    /\ last = [op |-> "constructor", err |-> "ok"]
    /\ ServiceIdle
    /\ SessionClosed

(* ----------------------------- modifiers ------------------------------ *)
callExists(cs, callId) == cs[callId].client # NullAddr

onlyDeveloper(cs, callId, sender) == cs[callId].developer = sender

(* ----------------------------- createCall ----------------------------- *)
\* createCallError with the duration tested before the amount.
createCallError_DurationFirst(cs, sender, callId, developer, duration, value) ==
    IF duration = 0 THEN "InvalidDuration"
    ELSE IF value = 0 THEN "InvalidAmount"
    ELSE IF developer = NullAddr THEN "InvalidDeveloper"
    ELSE IF sender = developer THEN "SelfBookingNotAllowed"
    ELSE IF /\ cs[callId].client # NullAddr
            /\ (~cs[callId].isCompleted \/ cs[callId].isPaid)
         THEN "CallAlreadyExists"
    ELSE "ok"

\* createCallError with the reuse guard letting a completed and paid record
\* be replaced.
createCallError_ReusePaid(cs, sender, callId, developer, duration, value) ==
    IF value = 0 THEN "InvalidAmount"
    ELSE IF duration = 0 THEN "InvalidDuration"
    ELSE IF developer = NullAddr THEN "InvalidDeveloper"
    ELSE IF sender = developer THEN "SelfBookingNotAllowed"
    ELSE IF /\ cs[callId].client # NullAddr
            /\ ~(cs[callId].isCompleted /\ cs[callId].isPaid)
         THEN "CallAlreadyExists"
    ELSE "ok"

\* createCallError without the test of an existing record.
createCallError_Overwrite(cs, sender, callId, developer, duration, value) ==
    IF value = 0 THEN "InvalidAmount"
    ELSE IF duration = 0 THEN "InvalidDuration"
    ELSE IF developer = NullAddr THEN "InvalidDeveloper"
    ELSE IF sender = developer THEN "SelfBookingNotAllowed"
    ELSE "ok"

\* createCallError without the self-booking test.
createCallError_SelfBooking(cs, sender, callId, developer, duration, value) ==
    IF value = 0 THEN "InvalidAmount"
    ELSE IF duration = 0 THEN "InvalidDuration"
    ELSE IF developer = NullAddr THEN "InvalidDeveloper"
    ELSE IF /\ cs[callId].client # NullAddr
            /\ (~cs[callId].isCompleted \/ cs[callId].isPaid)
         THEN "CallAlreadyExists"
    ELSE "ok"

\* The first revert createCall hits, or "ok".
createCallError(cs, sender, callId, developer, duration, value) ==
    IF value = 0 THEN "InvalidAmount"
    ELSE IF duration = 0 THEN "InvalidDuration"
    ELSE IF developer = NullAddr THEN "InvalidDeveloper"
    ELSE IF sender = developer THEN "SelfBookingNotAllowed"
    ELSE IF /\ cs[callId].client # NullAddr
            /\ (~cs[callId].isCompleted \/ cs[callId].isPaid)
         THEN "CallAlreadyExists"
    ELSE "ok"

\* newCall with the client and the developer stored in each other's field.
newCall_PartiesSwapped(sender, developer, duration, value) ==
    [client |-> developer, developer |-> sender, amount |-> value,
     duration |-> duration, startTime |-> 0, isActive |-> FALSE,
     isCompleted |-> FALSE, isPaid |-> FALSE]

\* The record createCall stores.
newCall(sender, developer, duration, value) ==
    [client |-> sender, developer |-> developer, amount |-> value,
     duration |-> duration, startTime |-> 0, isActive |-> FALSE,
     isCompleted |-> FALSE, isPaid |-> FALSE]

\* The world after createCall run in world w: the record is stored and the
\* attached value moves from the sender to the ledger, or the call reverts
\* and the value stays with the sender.
createCallWorld(w, sender, callId, developer, duration, value) ==
    IF createCallError(w.calls, sender, callId, developer, duration, value) = "ok"
    THEN [w EXCEPT !.calls[callId] = newCall(sender, developer, duration, value),
                   !.balance = @ + value,
                   !.bal[sender] = @ - value,
                   !.escrowed[callId] = @ + value]
    ELSE w

createCall(sender, callId, developer, duration, value) ==
    /\ sender \in Senders
    /\ value <= bal[sender]
    /\ Apply(createCallWorld(World, sender, callId, developer, duration, value))
    /\ last' = [op |-> "createCall",
                err |-> createCallError(calls, sender, callId, developer, duration,
                                        value)]
    /\ UNCHANGED <<now, stack, offLedger>>

(* ------------------------------ startCall ----------------------------- *)
\* startCallError with the modifier onlyClient added.
startCallError_OnlyClient(cs, sender, callId) ==
    IF ~callExists(cs, callId) THEN "CallNotFound"
    ELSE IF cs[callId].client # sender THEN "Unauthorized"
    ELSE IF cs[callId].isActive THEN "CallAlreadyStarted"
    ELSE IF cs[callId].isCompleted THEN "CallAlreadyCompleted"
    ELSE "ok"

\* startCallError without the test of isActive.
startCallError_Restart(cs, sender, callId) ==
    IF ~callExists(cs, callId) THEN "CallNotFound"
    ELSE IF cs[callId].isCompleted THEN "CallAlreadyCompleted"
    ELSE "ok"

\* The first revert startCall hits, or "ok". It has no modifier on the
\* sender.
startCallError(cs, sender, callId) ==
    IF ~callExists(cs, callId) THEN "CallNotFound"
    ELSE IF cs[callId].isActive THEN "CallAlreadyStarted"
    ELSE IF cs[callId].isCompleted THEN "CallAlreadyCompleted"
    ELSE "ok"

\* startCallWorld marking every stored record active, not only callId's.
startCallWorld_EveryRecord(w, sender, callId, t) ==
    IF startCallError(w.calls, sender, callId) = "ok"
    THEN [w EXCEPT !.calls = [id \in CallIds |->
                                 IF callExists(w.calls, id)
                                 THEN [w.calls[id] EXCEPT !.isActive = TRUE,
                                                          !.startTime = t]
                                 ELSE w.calls[id]]]
    ELSE w

\* The world after startCall run in world w at block.timestamp t.
startCallWorld(w, sender, callId, t) ==
    IF startCallError(w.calls, sender, callId) = "ok"
    THEN [w EXCEPT !.calls[callId].isActive = TRUE, !.calls[callId].startTime = t]
    ELSE w

startCall(sender, callId) ==
    /\ sender \in Senders
    /\ Apply(startCallWorld(World, sender, callId, now))
    /\ last' = [op |-> "startCall", err |-> startCallError(calls, sender, callId)]
    /\ UNCHANGED <<now, stack, offLedger>>

(* ----------------------------- completeCall --------------------------- *)
\* completeCallError with onlyClient in the place of onlyDeveloper.
completeCallError_OnlyClient(cs, b, sender, callId) ==
    IF ~callExists(cs, callId) THEN "CallNotFound"
    ELSE IF cs[callId].client # sender THEN "Unauthorized"
    ELSE IF cs[callId].isCompleted THEN "CallAlreadyCompleted"
    ELSE IF cs[callId].isPaid THEN "Payment already released"
    ELSE IF cs[callId].amount = 0 THEN "No payment amount available"
    ELSE IF b < cs[callId].amount THEN "Insufficient contract balance"
    ELSE "ok"

\* The first revert completeCall hits before its transfer, or "ok"; b is
\* address(this).balance.
completeCallError(cs, b, sender, callId) ==
    IF ~callExists(cs, callId) THEN "CallNotFound"
    ELSE IF ~onlyDeveloper(cs, callId, sender) THEN "Unauthorized"
    ELSE IF cs[callId].isCompleted THEN "CallAlreadyCompleted"
    ELSE IF cs[callId].isPaid THEN "Payment already released"
    ELSE IF cs[callId].amount = 0 THEN "No payment amount available"
    ELSE IF b < cs[callId].amount THEN "Insufficient contract balance"
    ELSE "ok"

\* completeCallAmount reading the stored amount after it was cleared.
completeCallAmount_AfterUpdate(cs, callId) == 0

\* The amount completeCall sends: the stored amount, read before the update.
completeCallAmount(cs, callId) == cs[callId].amount

\* completedCall with the state update left for after the transfer.
completedCall_AfterTransfer(c) == c

\* completedCall without the clearing of the amount.
completedCall_AmountKept(c) == [c EXCEPT !.isCompleted = TRUE, !.isPaid = TRUE]

\* The record after the state update that precedes the transfer.
completedCall(c) == [c EXCEPT !.isCompleted = TRUE, !.isPaid = TRUE, !.amount = 0]

\* The world after completeCall run in world w, up to and including
\* call.developer.call{value: amount}(""): the record is updated and the
\* amount moves from the ledger to the developer, or the call reverts.
completeCallWorld(w, sender, callId) ==
    IF completeCallError(w.calls, w.balance, sender, callId) = "ok"
    THEN LET amount == completeCallAmount(w.calls, callId)
             developer == w.calls[callId].developer
         IN [w EXCEPT !.calls[callId] = completedCall(@),
                      !.balance = @ - amount,
                      !.bal[developer] = @ + amount,
                      !.released[callId] = @ + amount,
                      !.completions[callId] = @ + 1]
    ELSE w

\* completeCall. A developer without code takes the value and the call is
\* over; a developer with code is entered and the transfer stays open until
\* that code returns or reverts.
completeCall(sender, callId) ==
    /\ sender \in Senders
    /\ Apply(completeCallWorld(World, sender, callId))
    /\ LET e == completeCallError(calls, balance, sender, callId)
       IN IF e = "ok" /\ calls[callId].developer \in Contracts
          THEN /\ stack' = Append(stack, [id |-> callId, pre |-> World])
               /\ last' = [op |-> "completeCall", err |-> "transfer open"]
          ELSE /\ stack' = stack
               /\ last' = [op |-> "completeCall", err |-> e]
    /\ UNCHANGED <<now, offLedger>>

\* The developer's code returns: success is true and completeCall ends.
TransferReturns ==
    /\ stack # <<>>
    /\ stack' = SubSeq(stack, 1, Len(stack) - 1)
    /\ last' = [op |-> "completeCall", err |-> "ok"]
    /\ UNCHANGED <<calls, balance, bal, now, escrowed, released, completions,
                   offLedger>>

\* PaymentFailedWorld with the transfer undone and the state update kept.
PaymentFailedWorld_FlipsKept(frame) ==
    [frame.pre EXCEPT !.calls[frame.id] = completedCall(@)]

\* The world after revert PaymentFailed() in the completeCall of an open
\* transfer: the one that completeCall began in.
PaymentFailedWorld(frame) == frame.pre

\* The developer's code reverts: success is false, completeCall reverts with
\* PaymentFailed and everything done since it began is undone.
TransferReverts ==
    /\ stack # <<>>
    /\ Apply(PaymentFailedWorld(stack[Len(stack)]))
    /\ stack' = SubSeq(stack, 1, Len(stack) - 1)
    /\ last' = [op |-> "completeCall", err |-> "PaymentFailed"]
    /\ UNCHANGED <<now, offLedger>>

(* ------------------------------- views -------------------------------- *)
\* What getCallDetails returns: the stored tuple, or the revert.
getCallDetails(cs, callId) ==
    IF cs[callId].client = NullAddr THEN "CallNotFound"
    ELSE <<cs[callId].client, cs[callId].developer, cs[callId].amount,
           cs[callId].duration, cs[callId].startTime, cs[callId].isActive,
           cs[callId].isCompleted, cs[callId].isPaid>>

doesCallExist(cs, callId) == cs[callId].client # NullAddr

(* ------------------------------- time --------------------------------- *)
\* A later block: block.timestamp grows between transactions.
Tick ==
    /\ stack = <<>>
    /\ now < MaxTime
    /\ now' = now + 1
    /\ UNCHANGED <<calls, balance, bal, stack, escrowed, released, completions, last,
                   offLedger>>

Next ==
    \/ \E s \in Accounts, id \in CallIds, d \in Accounts \cup {NullAddr},
          dur \in Durations, v \in Values : createCall(s, id, d, dur, v)
    \/ \E s \in Accounts, id \in CallIds : startCall(s, id)
    \/ \E s \in Accounts, id \in CallIds : completeCall(s, id)
    \/ TransferReturns
    \/ TransferReverts
    \/ Tick

Spec == Init /\ [][Next]_vars

\* The ledger within one block. No guard of the ledger reads
\* block.timestamp, so every combination of records and balances that
\* arises at all arises here; only startTime takes fewer values.
EscrowNext ==
    \/ \E s \in Accounts, id \in CallIds, d \in Accounts \cup {NullAddr},
          dur \in Durations, v \in Values : createCall(s, id, d, dur, v)
    \/ \E s \in Accounts, id \in CallIds : startCall(s, id)
    \/ \E s \in Accounts, id \in CallIds : completeCall(s, id)
    \/ TransferReturns
    \/ TransferReverts

SpecEscrow == Init /\ [][EscrowNext]_vars

(* ===================== Web3Service (web3Service.ts) ==================== *)
(* One call of the service at a time, from its entry to its return or      *)
(* throw. Every await is a point where the chain may move on: a submitted  *)
(* transaction is mined in a step of its own, and the developer may        *)
(* complete a call from elsewhere.                                          *)

\* const maxAttempts = 30
maxAttempts == 30

\* The call ids the application passes to the service; "" is the missing id.
SessionIds == {"call-a", "call-b"}

\* convertToBytes32: keccak256 of the id, here without collisions.
convertToBytes32(str) == IF str = "call-a" THEN 1 ELSE 2

\* What web3.utils.isAddress accepts; -1 stands for a malformed address.
BadAddress == -1
isAddress(a) == a \in Accounts \cup {NullAddr}

\* The whole numbers a double holds exactly reach FloatExact (2^53 in the
\* build); from there on the doubles lie 2 apart up to twice that, 4 apart
\* up to four times that, and so on.
FloatExact == 1

\* The distance of the doubles around wei base units.
spacing(wei) ==
    LET Powers == {2^k : k \in 0..wei}
    IN CHOOSE s \in Powers :
           /\ wei <= FloatExact * s
           /\ \A t \in Powers : wei <= FloatExact * t => s <= t

\* weiToCelo: Number(fromWei(wei, 'ether')), the double next to the amount,
\* here in base units. Between two doubles the nearer one is taken, and of
\* two equally near ones the one with the even mantissa, which a power of
\* two has.
weiToCelo(wei) ==
    LET s == spacing(wei)
        power == (FloatExact * s) \div 2
        below == IF wei - (wei % s) > power THEN wei - (wei % s) ELSE power
        above == wei - (wei % s) + s
    IN IF wei % s = 0 THEN wei
       ELSE IF wei - below < above - wei THEN below
       ELSE IF above - wei < wei - below THEN above
       ELSE IF below = power \/ (below \div s) % 2 = 0 THEN below
       ELSE above

\* localCheckError without the test of the connected account.
localCheckError_AnyAccount(cs, id, contractBalance, account) ==
    IF getCallDetails(cs, id) = "CallNotFound" THEN "CallNotFound"
    ELSE LET details == getCallDetails(cs, id) IN
    IF details[7] THEN "Call has already been completed"
    ELSE IF details[8] THEN "Payment has already been released"
    ELSE IF details[3] = 0 THEN "No payment amount available"
    ELSE IF weiToCelo(contractBalance) < weiToCelo(details[3])
         THEN "Insufficient contract balance"
    ELSE "ok"

\* The local precondition check of completeCall: the first error it throws,
\* or "ok". details is what getCallDetails(id) returns on records cs (the
\* call throws when the ledger reverts), account the connected account; both
\* addresses are compared in lower case, that is, as addresses.
localCheckError(cs, id, contractBalance, account) ==
    IF getCallDetails(cs, id) = "CallNotFound" THEN "CallNotFound"
    ELSE LET details == getCallDetails(cs, id) IN
    IF details[7] THEN "Call has already been completed"
    ELSE IF details[8] THEN "Payment has already been released"
    ELSE IF details[3] = 0 THEN "No payment amount available"
    ELSE IF details[2] # account THEN "Only the developer can complete the call"
    ELSE IF weiToCelo(contractBalance) < weiToCelo(details[3])
         THEN "Insufficient contract balance"
    ELSE "ok"

\* Entry of completeCall up to the end of the local check.
Web3Service_completeCall(account, callId) ==
    /\ svcPc = "idle"
    /\ LET id == convertToBytes32(callId)
           e == localCheckError(calls, id, balance, account)
       IN /\ req' = [NoRequest EXCEPT !.op = "completeCall", !.account = account,
                                      !.callId = callId]
          /\ checks' = [checks EXCEPT !.local = e]
          /\ IF e = "ok"
             THEN svcPc' = "send" /\ result' = result
             ELSE /\ svcPc' = "done"
                  /\ result' = [ok |-> FALSE,
                                text |-> <<"Failed to complete call: ", e>>]
    /\ UNCHANGED <<attempts, receipt, sent, ledgerVars, offService>>

\* Nonce, gas price, gas estimate (80000 when the estimate fails) and
\* eth_sendTransaction: the wallet takes the transaction, or the user
\* rejects it or the provider fails and completeCall throws.
Web3Service_completeCallSend(taken) ==
    /\ svcPc = "send"
    /\ IF taken
       THEN /\ sent' = Append(sent, [op |-> "completeCall", from |-> req.account,
                                     callId |-> convertToBytes32(req.callId),
                                     developer |-> NullAddr, duration |-> 0,
                                     value |-> 0, status |-> "pending"])
            /\ svcPc' = "poll"
            /\ result' = result
       ELSE /\ sent' = sent
            /\ svcPc' = "done"
            /\ result' = [ok |-> FALSE,
                          text |-> <<"Failed to complete call: ",
                                     "User denied transaction signature">>]
    /\ attempts' = 0
    /\ receipt' = "null"
    /\ UNCHANGED <<req, checks, ledgerVars, offService>>

\* pollAgain with the ceiling off by one.
pollAgain_OffByOne(r, n) == r = "null" /\ n <= maxAttempts

\* while (!receipt && attempts < maxAttempts)
pollAgain(r, n) == r = "null" /\ n < maxAttempts

\* What completeCall ends with after the loop.
pollResult(r) ==
    IF r = "null"
    THEN [ok |-> FALSE,
          text |-> <<"Failed to complete call: ",
                     "Transaction not confirmed after 30 seconds">>]
    ELSE [ok |-> TRUE, text |-> <<"txHash">>]

\* What getTransactionReceipt can answer: it throws, it has no receipt yet,
\* or it has the receipt of the mined transaction.
ReceiptAnswers == {"throws", "null", "receipt"}
\* What the getCallDetails after a successful receipt can answer: it throws,
\* it reads the chain as of the receipt, or it is served a state from before
\* the transaction.
ReadAnswers == {"throws", "fresh", "stale"}

\* One turn of the confirmation loop, and the code after the loop when this
\* turn was the last. Whatever is thrown inside the turn is caught and
\* logged in it.
Web3Service_completeCallPoll(answer, read) ==
    /\ svcPc = "poll"
    /\ pollAgain(receipt, attempts)
    /\ LET tx == sent[Len(sent)]
           r == IF answer = "receipt" THEN tx.status ELSE "null"
           isPaid == IF r # "success" THEN "none"
                     ELSE IF read = "throws" THEN "throws"
                     ELSE IF read = "fresh" /\ calls[tx.callId].isPaid THEN "true"
                     ELSE "false"
           n == IF isPaid = "true" THEN attempts ELSE attempts + 1
       IN /\ answer = "receipt" => tx.status # "pending"
          /\ r # "success" => read = "fresh"
          /\ receipt' = r
          /\ attempts' = n
          /\ checks' = [checks EXCEPT !.isPaid = IF r = "success" THEN isPaid ELSE @]
          /\ IF isPaid = "true" \/ ~pollAgain(r, n)
             THEN svcPc' = "done" /\ result' = pollResult(r)
             ELSE svcPc' = "poll" /\ result' = result
    /\ UNCHANGED <<req, sent, ledgerVars, offService>>

(* ---------------------- Web3Service.createCall ------------------------ *)
\* The input validation of createCall: the first error it throws, or "ok".
\* The amount is the one toWei turns into base units.
createCallInputError(callId, developerAddress, duration, amount) ==
    IF ~isAddress(developerAddress) THEN "Invalid developer address"
    ELSE IF duration <= 0 THEN "Duration must be greater than 0"
    ELSE IF amount <= 0 THEN "Amount must be greater than 0"
    ELSE IF callId = "" THEN "CallId is required"
    ELSE "ok"

\* Math.max(1, Math.floor(duration * 60)), duration in whole minutes.
durationInSeconds(duration) == IF duration * 60 >= 1 THEN duration * 60 ELSE 1

\* How web3.eth.call(txObject) ends on the chain as it is: with the revert
\* of the ledger, with the node refusing a value the sender does not have,
\* or well.
dryRunError(w, r) ==
    IF r.amount > w.bal[r.account] THEN "insufficient funds"
    ELSE createCallError(w.calls, r.account, convertToBytes32(r.callId),
                         r.developer, durationInSeconds(r.duration), r.amount)

\* The custom errors the ledger declares.
ErrorKinds ==
    {"InvalidAmount", "InvalidDuration", "InvalidDeveloper", "CallNotFound",
     "CallAlreadyExists", "CallAlreadyStarted", "CallAlreadyCompleted",
     "Unauthorized", "SelfBookingNotAllowed", "DurationNotMet", "PaymentFailed"}

\* The selector the ledger's revert data starts with: the first four bytes
\* of keccak256 of the signature of the error as it is declared.
selector(errorKind) ==
    CASE errorKind = "InvalidAmount" -> "3728b83d"            \* (uint256)
      [] errorKind = "InvalidDuration" -> "4ede0ebc"          \* (uint256)
      [] errorKind = "InvalidDeveloper" -> "08579782"         \* (address)
      [] errorKind = "CallNotFound" -> "7dc1dad7"             \* (bytes32)
      [] errorKind = "CallAlreadyExists" -> "17c69794"        \* (bytes32)
      [] errorKind = "CallAlreadyStarted" -> "f6761d0a"       \* (bytes32)
      [] errorKind = "CallAlreadyCompleted" -> "edc6a98d"     \* (bytes32)
      [] errorKind = "Unauthorized" -> "295a81c1"             \* (address,address)
      [] errorKind = "SelfBookingNotAllowed" -> "5a214db4"    \* (address)
      [] errorKind = "DurationNotMet" -> "48cd9795"           \* (uint256,uint256)
      [] errorKind = "PaymentFailed" -> "a09e6165"            \* (address,uint256)
      [] OTHER -> "08c379a0"                                  \* Error(string)

\* getCustomErrorName: errorSignatures[errorData.slice(2, 10)] || 'Unknown
\* error'.
getCustomErrorName(errorSignature) ==
    CASE errorSignature = "17c69794" -> "CallNotFound"
      [] errorSignature = "7939f424" -> "InvalidAmount"
      [] errorSignature = "c2d5b4b5" -> "InvalidDuration"
      [] errorSignature = "d1ab6ccd" -> "InvalidDeveloper"
      [] errorSignature = "f47d84c4" -> "CallAlreadyExists"
      [] errorSignature = "3bcc8979" -> "CallAlreadyStarted"
      [] errorSignature = "0de69ddb" -> "CallAlreadyCompleted"
      [] errorSignature = "b5babb70" -> "Unauthorized"
      [] errorSignature = "0c4e4138" -> "SelfBookingNotAllowed"
      [] errorSignature = "f7c3d683" -> "DurationNotMet"
      [] errorSignature = "8a0d5d23" -> "PaymentFailed"
      [] OTHER -> "Unknown error"

\* The messages of getRevertReason for the decoded custom errors.
customErrorMessage(errorName) ==
    CASE errorName = "CallNotFound" -> "Call not found with the given ID"
      [] errorName = "InvalidAmount" -> "Invalid payment amount"
      [] errorName = "InvalidDuration" -> "Invalid call duration"
      [] errorName = "InvalidDeveloper" -> "Invalid developer address"
      [] errorName = "CallAlreadyExists" -> "A call with this ID already exists"
      [] errorName = "CallAlreadyStarted" -> "Call has already started"
      [] errorName = "CallAlreadyCompleted" -> "Call has already been completed"
      [] errorName = "Unauthorized" ->
             "Unauthorized: you are not the client for this call"
      [] errorName = "SelfBookingNotAllowed" -> "You cannot book a call with yourself"
      [] errorName = "DurationNotMet" -> "Call duration requirement not met"
      [] errorName = "PaymentFailed" -> "Payment transfer failed"
      [] OTHER -> "Contract error: Unknown error"

\* The error objects a provider throws for a failed eth_call: with the
\* revert data at error.data.data, with the node's message only, or with the
\* wallet's wrapper message and nothing below it.
ErrorShapes == {"data", "message", "wrapped"}

\* getRevertReason, for a dry run that ended with e: with revert data the
\* message of the name its selector decodes to.
getRevertReason(e, shape) ==
    IF e = "insufficient funds" THEN "insufficient funds for transfer"
    ELSE IF shape = "data" THEN customErrorMessage(getCustomErrorName(selector(e)))
    ELSE IF shape = "message" THEN "Returned error: execution reverted"
    ELSE "Internal JSON-RPC error."

\* error.message.includes(needle), for the messages that occur here.
includes(text, needle) ==
    \E i \in 1..Len(text) :
        \/ needle = "insufficient funds" /\ text[i] = "insufficient funds for transfer"
        \/ needle = "User denied" /\ text[i] = "User denied transaction signature"
        \/ needle = "Internal JSON-RPC error" /\ text[i] = "Internal JSON-RPC error."

\* createCallCatch handing every error on as it is.
createCallCatch_Rethrow(text) == [ok |-> FALSE, text |-> text]

\* The catch block of createCall. Its first branch reads account, which is
\* declared inside the try block and is not in scope here.
createCallCatch(text) ==
    IF includes(text, "insufficient funds")
    THEN [ok |-> FALSE, text |-> <<"ReferenceError: account is not defined">>]
    ELSE IF includes(text, "User denied")
    THEN [ok |-> FALSE,
          text |-> <<"Transaction was rejected. Please try again and approve the transaction in your wallet.">>]
    ELSE IF includes(text, "Internal JSON-RPC error")
    THEN [ok |-> FALSE, text |-> <<"Network error. Please check:">>]
    ELSE [ok |-> FALSE, text |-> text]

\* Entry of createCall up to the end of the input validation.
Web3Service_createCall(account, callId, developerAddress, duration, amount) ==
    /\ svcPc = "idle"
    /\ LET e == createCallInputError(callId, developerAddress, duration, amount)
       IN /\ req' = [op |-> "createCall", account |-> account, callId |-> callId,
                     developer |-> developerAddress, duration |-> duration,
                     amount |-> amount]
          /\ checks' = [checks EXCEPT !.local = e]
          /\ IF e = "ok"
             THEN svcPc' = "dryRun" /\ result' = result
             ELSE svcPc' = "done" /\ result' = createCallCatch(<<e>>)
    /\ UNCHANGED <<attempts, receipt, sent, ledgerVars, offService>>

\* The dry run: web3.eth.call(txObject), and getRevertReason when it throws.
Web3Service_createCallDryRun(shape) ==
    /\ svcPc = "dryRun"
    /\ LET e == dryRunError(World, req)
       IN /\ checks' = [checks EXCEPT !.dryRun = e]
          /\ e = "ok" => shape = "data"
          /\ IF e = "ok"
             THEN svcPc' = "submit" /\ result' = result
             ELSE /\ svcPc' = "done"
                  /\ result' = createCallCatch(<<"Transaction would fail: ",
                                                 getRevertReason(e, shape)>>)
    /\ UNCHANGED <<req, attempts, receipt, sent, ledgerVars, offService>>

\* estimateGas, getGasPrice and sendTransaction: the wallet takes the
\* transaction or the user rejects it.
Web3Service_createCallSend(taken) ==
    /\ svcPc = "submit"
    /\ IF taken
       THEN /\ sent' = Append(sent, [op |-> "createCall", from |-> req.account,
                                     callId |-> convertToBytes32(req.callId),
                                     developer |-> req.developer,
                                     duration |-> durationInSeconds(req.duration),
                                     value |-> req.amount, status |-> "pending"])
            /\ svcPc' = "wait"
            /\ result' = result
       ELSE /\ sent' = sent
            /\ svcPc' = "done"
            /\ result' = createCallCatch(<<"User denied transaction signature">>)
    /\ UNCHANGED <<req, attempts, receipt, checks, ledgerVars, offService>>

\* sendTransaction resolves with the receipt of the mined transaction, or
\* rejects when the transaction reverted.
Web3Service_createCallReceipt ==
    /\ svcPc = "wait"
    /\ sent[Len(sent)].status # "pending"
    /\ svcPc' = "done"
    /\ result' = IF sent[Len(sent)].status = "success"
                 THEN [ok |-> TRUE, text |-> <<"txHash">>]
                 ELSE createCallCatch(<<"Transaction has been reverted by the EVM">>)
    /\ UNCHANGED <<req, attempts, receipt, sent, checks, ledgerVars, offService>>

(* ------------------------------ the chain ------------------------------ *)
\* A pending transaction is mined: the ledger runs it on the state of that
\* moment. The senders are wallet accounts, which hold no code.
Mine(i) ==
    /\ i \in 1..Len(sent)
    /\ sent[i].status = "pending"
    /\ stack = <<>>
    /\ LET tx == sent[i]
           e == IF tx.op = "completeCall"
                THEN completeCallError(calls, balance, tx.from, tx.callId)
                ELSE createCallError(calls, tx.from, tx.callId, tx.developer,
                                     tx.duration, tx.value)
       IN /\ tx.value <= bal[tx.from]
          /\ tx.op = "completeCall" => calls[tx.callId].developer \notin Contracts
          /\ IF tx.op = "completeCall"
             THEN Apply(completeCallWorld(World, tx.from, tx.callId))
             ELSE Apply(createCallWorld(World, tx.from, tx.callId, tx.developer,
                                        tx.duration, tx.value))
          /\ last' = [op |-> tx.op, err |-> e]
          /\ sent' = [sent EXCEPT ![i].status = IF e = "ok" THEN "success" ELSE "failed"]
    /\ UNCHANGED <<now, stack, svcPc, req, attempts, receipt, result, checks,
                   offService>>

\* The developer of a call completes it by another way than this call of
\* the service (another tab, another device).
CompletedElsewhere ==
    \E id \in CallIds :
        /\ calls[id].developer \in EOAs
        /\ completeCallError(calls, balance, calls[id].developer, id) = "ok"
        /\ completeCall(calls[id].developer, id)

\* The ledger states a call of the service starts from: client 1 has booked
\* developer 2 under the id of "call-a"; the call is started or not, or
\* account 2 has booked the contract 3 under the id of "call-b" as well.
ServiceWorlds ==
    LET booked == createCallWorld(InitWorld, 1, convertToBytes32("call-a"), 2, 1,
                                  MaxValue)
    IN {booked, startCallWorld(booked, 1, convertToBytes32("call-a"), 1),
        createCallWorld(booked, 2, convertToBytes32("call-b"), 3, 1, MaxValue)}

ServiceInit ==
    /\ \E w \in ServiceWorlds :
           /\ Holds(w)
           /\ last = [op |-> IF w.calls[1].isActive THEN "startCall" ELSE "createCall",
                      err |-> "ok"]
    /\ now = 1
    /\ stack = <<>>
    /\ ServiceIdle
    /\ SessionClosed

ServiceNext ==
    \/ \E a \in EOAs, id \in SessionIds : Web3Service_completeCall(a, id)
    \/ \E taken \in BOOLEAN : Web3Service_completeCallSend(taken)
    \/ \E answer \in ReceiptAnswers, read \in ReadAnswers :
           Web3Service_completeCallPoll(answer, read)
    \/ \E a \in EOAs, id \in SessionIds \cup {""},
          d \in Accounts \cup {NullAddr, BadAddress}, dur \in Durations, v \in Values :
           Web3Service_createCall(a, id, d, dur, v)
    \/ \E shape \in ErrorShapes : Web3Service_createCallDryRun(shape)
    \/ \E taken \in BOOLEAN : Web3Service_createCallSend(taken)
    \/ Web3Service_createCallReceipt
    \/ \E i \in 1..Len(sent) : Mine(i)
    \/ CompletedElsewhere

SpecService == ServiceInit /\ [][ServiceNext]_vars

\* The event loop runs every turn of the confirmation loop: each await of it
\* settles.
SpecServiceFair ==
    /\ SpecService
    /\ WF_vars(\E answer \in ReceiptAnswers, read \in ReadAnswers :
                   Web3Service_completeCallPoll(answer, read))

(* ====================== VideoCall (VideoCall.tsx) ====================== *)
(* The session view of each party. A handler closes over the React state   *)
(* of the render that created it: a store subscription keeps the           *)
(* isCallEnding it was set up with until its effect runs again, and the    *)
(* handlers set up by the effects of the first render keep its callData,   *)
(* which is null. Each subscription has an inbox of snapshots the store    *)
(* has raised for it and its handler has not run on yet.                   *)

\* The most calls of web3Service.completeCall a view makes in one run.
MaxSubmissions == 2
\* The most notifications the store delivers a second time in one run.
MaxReplays == 1
\* The seconds of a minute the countdown is followed in: data.duration * 60
\* is duration * SecondsPerMinute here.
SecondsPerMinute == 2
\* The longest session, in minutes.
MaxMinutes == 1

\* user.uid === callData.developerId with the rest of the condition on the
\* branch to a payment, for a mutant that lets every side pay.
isDeveloper_EitherSide(v) == TRUE

\* user.uid === callData.developerId
isDeveloper(v) == v = "developer"

\* The session is running: the record is active.
ActiveSession == [NoSession EXCEPT !.status = "active"]

\* snapshot.data() of record d as far as the handler of subscription k reads
\* it: the requiresPayment subscription reads requiresPayment and
\* paymentReleased, the status subscription and the one of initializeCall
\* read status, and the one of fetchCallData hands the record to
\* setCallData, of which the view keeps here only that it is loaded, and
\* reads startTime and duration, which no write of the views changes.
snapshotData(k, d) ==
    IF k = "payment"
    THEN [NoSession EXCEPT !.requiresPayment = d.requiresPayment,
                           !.paymentReleased = d.paymentReleased]
    ELSE IF k \in {"status", "updates"} THEN [NoSession EXCEPT !.status = d.status]
    ELSE NoSession

\* A subscription of kind k before its handler has run on the first snapshot.
FirstSnapshot(k) ==
    [on |-> TRUE, isCallEnding |-> FALSE,
     inbox |-> <<snapshotData(k, ActiveSession)>>]

\* The most snapshots that wait for one handler; a further one takes the
\* place of the newest that waits.
MaxInbox == 1

\* Snapshot d joins the snapshots waiting in inbox.
Deliver(inbox, d) ==
    IF Len(inbox) < MaxInbox THEN Append(inbox, d)
    ELSE Append(SubSeq(inbox, 1, Len(inbox) - 1), d)

\* The store raises snapshot d for every subscription that is set up.
Publish(ls, d) ==
    [v \in Views |->
        [k \in Kinds |->
            IF ls[v][k].on
            THEN [ls[v][k] EXCEPT !.inbox = Deliver(@, snapshotData(k, d))]
            ELSE ls[v][k]]]

\* setIsCallEnding(b) in view v: the effect of the status subscription has
\* isCallEnding among its dependencies and subscribes again, to a first
\* snapshot d; the effect of the payment subscription has not.
setIsCallEnding(ls, u, v, b, d) ==
    IF u[v].mounted /\ u[v].isCallEnding # b
    THEN [ls EXCEPT ![v].status = [on |-> TRUE, isCallEnding |-> b,
                                   inbox |-> <<snapshotData("status", d)>>]]
    ELSE ls

\* setCallData(data) in view v: callData is a dependency of the effect of
\* the requiresPayment subscription, which the developer's view sets up
\* again, with the isCallEnding of this render and a first snapshot d.
setCallData(ls, u, v, d) ==
    IF u[v].mounted /\ isDeveloper(v)
    THEN [ls EXCEPT ![v].payment = [on |-> TRUE, isCallEnding |-> u[v].isCallEnding,
                                    inbox |-> <<snapshotData("payment", d)>>]]
    ELSE ls

\* The cleanups of the effects of view v run: the payment and the status
\* subscription are cancelled. The unsubscribe of fetchCallData and the
\* cleanup of initializeCall (unsubscribe, clearInterval, leaveChannel) are
\* results of async functions that nobody reads: both subscriptions and the
\* interval stay.
unmount(ls, v) == [ls EXCEPT ![v].payment = NoListener, ![v].status = NoListener]

\* The view after navigate.
left(u, v) == [u EXCEPT ![v].mounted = FALSE]

\* The interval ids a view can hold at a time.
MaxIntervals == 2

\* clearInterval leaving the interval running.
clearInterval_Nothing(u, v) == u

\* if (timerInterval.current) clearInterval(timerInterval.current): the
\* interval the ref names stops, if it runs; the ref keeps the id.
clearInterval(u, v) == [u EXCEPT ![v].intervals = @ \ {u[v].timerInterval}]

\* The clean-up of timers in handleCallEnd: the interval of the ref is
\* cleared and the ref set to null.
clearTimers(u, v) == [clearInterval(u, v) EXCEPT ![v].timerInterval = 0]

\* The id setInterval returns: one that no running interval has.
setInterval(running) ==
    IF \E i \in 1..MaxIntervals : i \notin running
    THEN CHOOSE i \in 1..MaxIntervals :
             i \notin running /\ \A j \in 1..(i - 1) : j \in running
    ELSE MaxIntervals

\* new Date().getTime() in the browser of view v.
localNow(v) == clock.server + clock.skew[v]

\* remainingSeconds for the time value t the handler has measured.
remainingSeconds(t) == clock.duration * SecondsPerMinute - (t - clock.startTime)

\* The React state a handler of view v reads in the render that is current.
currentRender(v) ==
    [callData |-> ui[v].callData, isCallEnding |-> ui[v].isCallEnding,
     timeLeft |-> ui[v].timeLeft]

\* The state the handlers of the first render read: the effects of
\* fetchCallData and initializeCall (dependencies [callId, user]) and of
\* beforeunload ([]) run once, and the interval of startTimer is created by
\* these handlers.
firstRender == [callData |-> FALSE, isCallEnding |-> FALSE, timeLeft |-> NullTime]

\* if (!callData || !callId || isCallEnding) return, for the render the
\* routine was created in.
handleCallEndRuns(render) == render.callData /\ ~render.isCallEnding

\* endReason: timeLeft === 0 ? 'timeout' : 'manual'
endReason(render) == IF render.timeLeft = 0 THEN "timeout" ELSE "manual"

\* startTimer(d) in view v, u and o being ui and opening with what the
\* handler has done before: the interval before is cleared, setTimeLeft(d),
\* a new interval; the handlers that start a countdown have set
\* callInitialized.current or set it next. The countdown and the time of the
\* store it starts at are kept as history.
startTimer(u, o, v, d) ==
    LET cleared == clearInterval(u, v)
        id == setInterval(cleared[v].intervals)
    IN /\ ui' = [cleared EXCEPT ![v].timeLeft = IF u[v].mounted THEN d ELSE @,
                                ![v].timerInterval = id,
                                ![v].intervals = @ \cup {id},
                                ![v].callInitialized = TRUE]
       /\ opening' = [o EXCEPT ![v].countdown =
                                   [started |-> TRUE, initial |-> d,
                                    startedAt |-> clock.server,
                                    cancelled |-> u[v].timerInterval \in
                                                      u[v].intervals]]

\* handleCallEnd of render `render` is called in view v for cause `cause`,
\* u and ls being ui and listeners with what the caller has done before:
\* past the guard it sets isCallEnding and goes on to leave the channel.
\* The view runs one end routine at a time here.
handleCallEndCalled(u, ls, v, render, cause) ==
    IF handleCallEndRuns(render) /\ ending[v].pc = "idle"
    THEN /\ ui' = [u EXCEPT ![v].isCallEnding = IF u[v].mounted THEN TRUE ELSE @]
         /\ listeners' = setIsCallEnding(ls, u, v, TRUE, session)
         /\ ending' = [ending EXCEPT ![v].pc = "write",
                                     ![v].reason = endReason(render),
                                     ![v].cause = cause]
    ELSE /\ ui' = u
         /\ listeners' = ls
         /\ ending' = ending

\* The End Call button of view v is pressed (it is disabled while
\* isCallEnding): handleCallEnd of the current render, up to
\* setIsCallEnding(true).
handleCallEnd(v) ==
    /\ ui[v].mounted
    /\ ~ui[v].isCallEnding
    /\ handleCallEndRuns(currentRender(v))
    /\ ending[v].pc = "idle"
    /\ handleCallEndCalled(ui, listeners, v, currentRender(v), "click")
    /\ UNCHANGED <<session, paying, submissions, replays, opening, clock, offSession>>

\* countDown going on below zero.
countDown_BelowZero(prev) == prev - 1

\* The updater the interval hands to setTimeLeft: at or below zero, or with
\* null, 0; else one less.
countDown(prev) == IF prev = NullTime \/ prev <= 0 THEN 0 ELSE prev - 1

\* The interval of view v fires: setTimeLeft(prev => ...). At or below zero
\* (or null) the interval is cleared and the handleCallEnd the interval was
\* created with is called, the one of the first render. When timeLeft has
\* become 0 the effect on timeLeft calls handleCallEnd of the new render.
tick(v) ==
    LET prev == ui[v].timeLeft
        over == prev = NullTime \/ prev <= 0
        next == countDown(prev)
        ticked == IF over THEN [clearInterval(ui, v) EXCEPT ![v].timeLeft = next]
                  ELSE [ui EXCEPT ![v].timeLeft = next]
        stale == over /\ handleCallEndRuns(firstRender)
        render == IF stale THEN firstRender
                  ELSE [currentRender(v) EXCEPT !.timeLeft = next]
    IN /\ ui[v].intervals # {}
       /\ ui[v].mounted
       /\ IF stale \/ (next = 0 /\ prev # 0)
          THEN handleCallEndCalled(ticked, listeners, v, render, "expiry")
          ELSE ui' = ticked /\ UNCHANGED <<listeners, ending>>
       /\ UNCHANGED <<session, paying, submissions, replays, opening, clock, offSession>>

\* handleCallEnd: the channel is left and the record is updated.
handleCallEndWrite(v) ==
    /\ ending[v].pc = "write"
    /\ session' = [session EXCEPT !.status = "completed", !.endedBy = v,
                                  !.endReason = ending[v].reason,
                                  !.requiresPayment = TRUE]
    /\ listeners' = Publish(listeners, session')
    /\ ending' = [ending EXCEPT ![v].pc = "finish", ![v].writes = @ + 1]
    /\ UNCHANGED <<ui, paying, submissions, replays, opening, clock, offSession>>

\* handleCallEnd from the update of actualDuration on: the timer is
\* cleared; the developer's view goes on to processPayment, which calls
\* web3Service.completeCall; the client's view navigates away.
handleCallEndFinish(v) ==
    /\ ending[v].pc = "finish"
    /\ ending' = [ending EXCEPT ![v] = [NoEnding EXCEPT !.writes = ending[v].writes]]
    /\ IF isDeveloper(v)
       THEN /\ submissions[v] < MaxSubmissions
            /\ submissions' = [submissions EXCEPT ![v] = @ + 1]
            /\ paying' = [paying EXCEPT ![v] = @ + 1]
            /\ listeners' = Publish(listeners, session)
            /\ ui' = clearTimers(ui, v)
       ELSE /\ listeners' = unmount(Publish(listeners, session), v)
            /\ ui' = left(clearTimers(ui, v), v)
            /\ UNCHANGED <<submissions, paying>>
    /\ UNCHANGED <<session, replays, opening, clock, offSession>>

\* processPayment from the return of web3Service.completeCall on: with a
\* transaction hash (paid) the record is updated and the view navigates
\* away; with an error the record gets the error and isCallEnding is reset.
processPaymentEnds(v, paid) ==
    /\ paying[v] > 0
    /\ paying' = [paying EXCEPT ![v] = @ - 1]
    /\ IF paid
       THEN /\ session' = [session EXCEPT !.paymentReleased = TRUE,
                                          !.requiresPayment = FALSE]
            /\ listeners' = unmount(Publish(listeners, session'), v)
            /\ ui' = left(ui, v)
       ELSE /\ session' = [session EXCEPT !.paymentError = TRUE]
            /\ listeners' = setIsCallEnding(Publish(listeners, session'), ui, v,
                                            FALSE, session')
            /\ ui' = [ui EXCEPT ![v].isCallEnding = FALSE]
    /\ UNCHANGED <<ending, submissions, replays, opening, clock>>

\* processPayment after web3Service.completeCall has returned (paid) or
\* thrown, the service and the ledger left aside.
processPayment(v, paid) ==
    /\ processPaymentEnds(v, paid)
    /\ UNCHANGED offSession

\* The handler of the requiresPayment subscription runs on its next
\* snapshot, with the isCallEnding of the render that subscribed.
onPaymentSnapshot(v) ==
    LET l == listeners[v].payment
        data == Head(l.inbox)
    IN /\ l.on
       /\ l.inbox # <<>>
       /\ IF data.requiresPayment /\ ~data.paymentReleased /\ ~l.isCallEnding
          THEN /\ submissions[v] < MaxSubmissions
               /\ submissions' = [submissions EXCEPT ![v] = @ + 1]
               /\ paying' = [paying EXCEPT ![v] = @ + 1]
          ELSE UNCHANGED <<submissions, paying>>
       /\ listeners' = [listeners EXCEPT ![v].payment.inbox = Tail(@)]
       /\ UNCHANGED <<session, ui, ending, replays, opening, clock, offSession>>

\* The handler of the subscription of fetchCallData runs on its next
\* snapshot: setCallData(data), and while callInitialized.current is unset
\* (data.startTime is set on every active record) it asks for the time of
\* the store.
onDataSnapshot(v) ==
    LET l == listeners[v].data
    IN /\ l.on
       /\ l.inbox # <<>>
       /\ ui' = [ui EXCEPT ![v].callData = IF ui[v].mounted THEN TRUE ELSE @]
       /\ listeners' = [setCallData(listeners, ui, v, session) EXCEPT
                           ![v].data.inbox = Tail(@)]
       /\ opening' = [opening EXCEPT
                         ![v].stamp = IF ui[v].callInitialized THEN @ ELSE TRUE]
       /\ UNCHANGED <<session, ending, paying, submissions, replays, clock, offSession>>

\* getServerTimestamp has answered the handler of fetchCallData in view v,
\* with the time of the store, or with Date.now() when the request failed.
\* With time left the countdown starts; with none the handler calls
\* handleCallEnd, the one of the first render.
onServerTimestamp(v, answered) ==
    LET serverTimestamp == IF answered THEN clock.server ELSE localNow(v)
        remaining == remainingSeconds(serverTimestamp)
        asked == [opening EXCEPT ![v].stamp = FALSE]
    IN /\ opening[v].stamp
       /\ IF remaining > 0
          THEN /\ startTimer(ui, asked, v, remaining)
               /\ UNCHANGED <<listeners, ending>>
          ELSE /\ handleCallEndCalled(ui, listeners, v, firstRender, "expiry")
               /\ opening' = [asked EXCEPT ![v].expired = TRUE]
       /\ UNCHANGED <<session, paying, submissions, replays, clock, offSession>>

\* initializeCall in view v, getDoc has answered: setCallData, and on an
\* active record callInitialized.current is set and the media channel is
\* being joined.
initializeCall(v) ==
    LET starts == session.status = "active" /\ ~ui[v].callInitialized
    IN /\ opening[v].init = "getDoc"
       /\ ui' = [ui EXCEPT ![v].callData = IF ui[v].mounted THEN TRUE ELSE @,
                           ![v].callInitialized = IF starts THEN TRUE ELSE @]
       /\ listeners' = setCallData(listeners, ui, v, session)
       /\ opening' = [opening EXCEPT ![v].init = IF starts THEN "joining" ELSE "joined"]
       /\ UNCHANGED <<session, ending, paying, submissions, replays, clock, offSession>>

\* initializeCall in view v, initializeVideoCall has returned: the time left
\* is taken from the local clock, and with time left the countdown starts;
\* with none handleCallEnd of the first render is called.
initializeCallTimer(v) ==
    LET remaining == remainingSeconds(localNow(v))
        joined == [opening EXCEPT ![v].init = "joined"]
    IN /\ opening[v].init = "joining"
       /\ IF remaining > 0
          THEN /\ startTimer(ui, joined, v, remaining)
               /\ UNCHANGED <<listeners, ending>>
          ELSE /\ handleCallEndCalled(ui, listeners, v, firstRender, "expiry")
               /\ opening' = [joined EXCEPT ![v].expired = TRUE]
       /\ UNCHANGED <<session, paying, submissions, replays, clock, offSession>>

\* initializeCall in view v subscribes to the updates of the record.
initializeCallListen(v) ==
    /\ opening[v].init = "joined"
    /\ listeners' = [listeners EXCEPT
                        ![v].updates = [on |-> TRUE, isCallEnding |-> FALSE,
                                        inbox |-> <<snapshotData("updates", session)>>]]
    /\ opening' = [opening EXCEPT ![v].init = "done"]
    /\ UNCHANGED <<session, ui, ending, paying, submissions, replays, clock, offSession>>

\* The handler of the subscription of initializeCall runs on its next
\* snapshot: setCallData(updatedData), and on an active record with
\* callInitialized.current unset it joins the channel and takes the time
\* left from the local clock (startTime is set, and timeLeft is the null of
\* the first render), as initializeCall does.
onUpdateSnapshot(v) ==
    LET l == listeners[v].updates
        updatedData == Head(l.inbox)
        starts == updatedData.status = "active" /\ ~ui[v].callInitialized
        remaining == remainingSeconds(localNow(v))
        loaded == [ui EXCEPT ![v].callData = IF ui[v].mounted THEN TRUE ELSE @,
                             ![v].callInitialized = IF starts THEN TRUE ELSE @]
        handled == [setCallData(listeners, ui, v, session) EXCEPT
                       ![v].updates.inbox = Tail(@)]
    IN /\ l.on
       /\ l.inbox # <<>>
       /\ IF starts /\ remaining > 0
          THEN /\ startTimer(loaded, opening, v, remaining)
               /\ listeners' = handled
               /\ ending' = ending
          ELSE /\ IF starts
                  THEN handleCallEndCalled(loaded, handled, v, firstRender, "expiry")
                  ELSE ui' = loaded /\ listeners' = handled /\ ending' = ending
               /\ opening' = [opening EXCEPT ![v].expired = IF starts THEN TRUE ELSE @]
       /\ UNCHANGED <<session, paying, submissions, replays, clock, offSession>>

\* The handler of the status subscription runs on its next snapshot: when
\* the other party has ended the call the channel is left, the interval is
\* cleared and the view navigates away.
onStatusSnapshot(v) ==
    LET l == listeners[v].status
        data == Head(l.inbox)
    IN /\ l.on
       /\ l.inbox # <<>>
       /\ IF data.status = "completed" /\ ~l.isCallEnding
          THEN /\ listeners' = unmount(listeners, v)
               /\ ui' = left(clearInterval(ui, v), v)
          ELSE /\ listeners' = [listeners EXCEPT ![v].status.inbox = Tail(@)]
               /\ ui' = ui
       /\ UNCHANGED <<session, ending, paying, submissions, replays, opening, clock,
                      offSession>>

\* The user of view v leaves the session view by another way than the end
\* of the call (the navigation bar, the back button).
leave(v) ==
    /\ ui[v].mounted
    /\ listeners' = unmount(listeners, v)
    /\ ui' = left(ui, v)
    /\ UNCHANGED <<session, ending, paying, submissions, replays, opening, clock,
                   offSession>>

\* A second of the store's time passes.
passes ==
    /\ clock.server < MaxTime
    /\ clock' = [clock EXCEPT !.server = @ + 1]
    /\ UNCHANGED <<session, ui, listeners, ending, paying, submissions, replays,
                   opening, offSession>>

\* The store raises the current record once more for one subscription (a
\* reconnect, a resynchronisation).
Replay(v, k) ==
    /\ replays < MaxReplays
    /\ listeners[v][k].on
    /\ listeners' = [listeners EXCEPT
                         ![v][k].inbox = Deliver(@, snapshotData(k, session))]
    /\ replays' = replays + 1
    /\ UNCHANGED <<session, ui, ending, paying, submissions, opening, clock, offSession>>

\* The ledger and the service after handlePayment: the client has booked
\* the developer under the id of "call-a", and nobody has called startCall.
BookedWorld ==
    /\ \E w \in ServiceWorlds :
           /\ ~w.calls[1].isActive
           /\ w.calls[2] = NoCall
           /\ Holds(w)
    /\ now = 1
    /\ stack = <<>>
    /\ last = [op |-> "createCall", err |-> "ok"]
    /\ ServiceIdle

\* The ledger, the service and the dashboards as a session finds them.
SessionWorld ==
    /\ BookedWorld
    /\ lobby = NoLobby
    /\ trip = NoTrip
    /\ gas = NoGas

\* The session is running: both parties are in the view, the record is
\* loaded, the channel joined, every subscription set up and its first
\* snapshot handled, and the countdown has one second left.
SessionInit ==
    /\ SessionWorld
    /\ session = ActiveSession
    /\ ui = [v \in Views |-> [mounted |-> TRUE, callData |-> TRUE,
                              isCallEnding |-> FALSE, timeLeft |-> 1,
                              timerInterval |-> 1, intervals |-> {1},
                              callInitialized |-> TRUE]]
    /\ listeners =
           [v \in Views |->
               [k \in Kinds |->
                   IF k = "payment" /\ ~isDeveloper(v) THEN NoListener
                   ELSE [FirstSnapshot(k) EXCEPT !.inbox = <<>>]]]
    /\ ending = [v \in Views |-> NoEnding]
    /\ paying = [v \in Views |-> 0]
    /\ submissions = [v \in Views |-> 0]
    /\ replays = 0
    /\ opening = [v \in Views |-> [NoOpening EXCEPT !.init = "done"]]
    /\ clock = [NoClock EXCEPT !.duration = MaxMinutes]

SessionNext ==
    \/ \E v \in Views : handleCallEnd(v)
    \/ \E v \in Views : tick(v)
    \/ \E v \in Views : handleCallEndWrite(v)
    \/ \E v \in Views : handleCallEndFinish(v)
    \/ \E v \in Views, paid \in BOOLEAN : processPayment(v, paid)
    \/ \E v \in Views : onPaymentSnapshot(v)
    \/ \E v \in Views : onDataSnapshot(v)
    \/ \E v \in Views : onUpdateSnapshot(v)
    \/ \E v \in Views : onStatusSnapshot(v)
    \/ \E v \in Views, k \in Kinds : Replay(v, k)

SpecSession == SessionInit /\ [][SessionNext]_vars

\* One party opens the session view on the record the client's dashboard
\* has set active, now or MaxTime seconds ago, startTime being the client's
\* local time of that moment: the view starts fetchCallData, initializeCall
\* and the status subscription. The other party's view is not open.
ViewInit ==
    /\ SessionWorld
    /\ session = ActiveSession
    /\ \E me \in Views :
           /\ ui = [v \in Views |-> [mounted |-> v = me, callData |-> FALSE,
                                     isCallEnding |-> FALSE, timeLeft |-> NullTime,
                                     timerInterval |-> 0, intervals |-> {},
                              callInitialized |-> FALSE]]
           /\ listeners =
                  [v \in Views |->
                      [k \in Kinds |->
                          IF v = me /\ k \in {"status", "data"} THEN FirstSnapshot(k)
                          ELSE NoListener]]
           /\ opening = [v \in Views |->
                            [NoOpening EXCEPT !.init = IF v = me THEN "getDoc" ELSE @]]
    /\ ending = [v \in Views |-> NoEnding]
    /\ paying = [v \in Views |-> 0]
    /\ submissions = [v \in Views |-> 0]
    /\ replays = 0
    /\ \E skew \in [Views -> Skews], minutes \in 1..MaxMinutes,
          startedAt \in {NoClock.server - MaxTime, NoClock.server} :
           clock = [NoClock EXCEPT !.skew = skew,
                                   !.startedAt = startedAt,
                                   !.startTime = startedAt + skew["client"],
                                   !.duration = minutes]

ViewNext ==
    \/ \E v \in Views : initializeCall(v)
    \/ \E v \in Views : initializeCallTimer(v)
    \/ \E v \in Views : initializeCallListen(v)
    \/ \E v \in Views : onDataSnapshot(v)
    \/ \E v \in Views, answered \in BOOLEAN : onServerTimestamp(v, answered)
    \/ \E v \in Views : onUpdateSnapshot(v)
    \/ \E v \in Views : onStatusSnapshot(v)
    \/ \E v \in Views : onPaymentSnapshot(v)
    \/ \E v \in Views : handleCallEnd(v)
    \/ \E v \in Views : tick(v)
    \/ \E v \in Views : handleCallEndWrite(v)
    \/ \E v \in Views : handleCallEndFinish(v)
    \/ \E v \in Views, paid \in BOOLEAN : processPayment(v, paid)
    \/ \E v \in Views : leave(v)
    \/ passes

SpecView == ViewInit /\ [][ViewNext]_vars

\* The view is opened with every browser clock in step with the store's.
ViewFairInit == ViewInit /\ clock.skew = [v \in Views |-> 0]

\* The browser runs the callback of setInterval every second for as long as
\* the interval exists.
SpecViewFair ==
    /\ ViewFairInit
    /\ [][ViewNext]_vars
    /\ \A v \in Views : WF_vars(tick(v))

(* ===================== the way of an amount =========================== *)
(* An amount is entered in the currency as a decimal number, createCall    *)
(* turns it into base units and sends them as the value of the             *)
(* transaction, the ledger stores the value, and getCallDetails of the     *)
(* service reads it back with weiToCelo.                                    *)

\* The base units of one unit of the currency (10^18 in the build).
WeiPerCelo == 4
\* The most whole units of the currency in an amount.
MaxCelo == 2

\* The decimal amounts: whole units and a fraction in base units.
Amounts == (0..MaxCelo) \X (0..(WeiPerCelo - 1))

\* web3.utils.toWei(amount, 'ether')
toWei(amount) == amount[1] * WeiPerCelo + amount[2]

\* The most base units of an amount.
MaxWei == toWei(<<MaxCelo, WeiPerCelo - 1>>)

\* handlePayment of the dashboard and the payment modal: createCall with
\* the amount that was entered, from the account the client's wallet is
\* connected to and for the account of the developer.
handlePayment(account, developerAddress, duration) ==
    /\ trip.pc = "entered"
    /\ Web3Service_createCall(account, "call-a", developerAddress, duration,
                              toWei(trip.amount))

\* getCallDetails of the service on a call that exists: amount is
\* weiToCelo of the stored amount.
Web3Service_getCallDetails(callId) ==
    LET details == getCallDetails(calls, convertToBytes32(callId))
    IN /\ trip.pc = "entered"
       /\ details # "CallNotFound"
       /\ trip' = [trip EXCEPT !.pc = "read", !.read = weiToCelo(details[3])]
       /\ UNCHANGED <<ledgerVars, serviceVars, sessionVars, dashboardVars, gas>>

\* The ledger right after its constructor, the wallets holding what the
\* largest amount takes, and an amount entered in the client's dashboard.
AmountInit ==
    /\ Holds([InitWorld EXCEPT
                  !.bal = [a \in Accounts |-> IF a \in EOAs THEN MaxWei ELSE 0]])
    /\ now = 1
    /\ stack = <<>>
    /\ last = [op |-> "constructor", err |-> "ok"]
    /\ ServiceIdle
    /\ session = NoSession
    /\ ViewsClosed
    /\ lobby = NoLobby
    /\ \E amount \in Amounts : trip = [NoTrip EXCEPT !.pc = "entered", !.amount = amount]
    /\ gas = NoGas

AmountNext ==
    \/ \E a \in EOAs, d \in EOAs, duration \in Durations : handlePayment(a, d, duration)
    \/ \E shape \in ErrorShapes : Web3Service_createCallDryRun(shape)
    \/ \E taken \in BOOLEAN : Web3Service_createCallSend(taken)
    \/ \E i \in 1..Len(sent) : Mine(i)
    \/ Web3Service_createCallReceipt
    \/ Web3Service_getCallDetails("call-a")

SpecAmount == AmountInit /\ [][AmountNext]_vars

(* ========================= the gas limit =============================== *)
(* createCall, startCall and completeCall of the service each ask the node *)
(* for a gas estimate, add a fifth and submit the transaction with that    *)
(* limit. What estimateGas resolves to depends on the web3 library of the  *)
(* build: a number (1.x) or a bigint (4.x, the default return format).     *)

\* The largest gas estimate followed.
MaxEstimate == 10

\* gasLimit = 80000 // Conservative fallback
fallbackGas == 80000

\* The methods of the service that submit a transaction.
GasOps == {"createCall", "startCall", "completeCall"}

\* What the await of estimateGas ends with: it rejects, or resolves to an
\* estimate of either type.
GasAnswers == {<<"error", 0>>} \cup ({"number", "bigint"} \X (1..MaxEstimate))

\* Math.floor(e * 1.2) for a number e.
withBuffer(e) == (e * 12) \div 10

\* The gas limit a method computes from the answer, 0 standing for none.
\* createCall and startCall await the estimate outside any try and compute
\* Math.floor(Number(gasEstimate) * 1.2). completeCall computes
\* Math.floor(estimate * 1.2) inside a try whose catch sets the fallback:
\* the product of a bigint and 1.2 throws a TypeError, which the catch
\* takes as it takes a rejected estimate.
gasLimitOf(op, answer) ==
    IF op = "completeCall"
    THEN IF answer[1] = "number" THEN withBuffer(answer[2]) ELSE fallbackGas
    ELSE IF answer[1] = "error" THEN 0 ELSE withBuffer(answer[2])

\* The await of estimateGas settles in the method that is at it: the gas
\* limit is computed and the method goes on to submit, or the rejection
\* leaves createCall or startCall through its catch, which throws.
Web3Service_estimateGas(answer) ==
    LET aborts == gas.op # "completeCall" /\ answer[1] = "error"
    IN /\ gas.pc = "estimate"
       /\ gas' = [gas EXCEPT !.estimate = answer,
                             !.gasLimit = gasLimitOf(gas.op, answer),
                             !.pc = IF aborts THEN "done" ELSE "submit",
                             !.thrown = aborts]
       /\ UNCHANGED <<ledgerVars, serviceVars, sessionVars, dashboardVars, trip>>

\* sendTransaction, tx.send or eth_sendTransaction with the gas limit: the
\* wallet takes the transaction, or the user rejects it and the method
\* throws.
Web3Service_sendTransaction(taken) ==
    /\ gas.pc = "submit"
    /\ gas' = [gas EXCEPT !.pc = "done", !.submitted = taken, !.thrown = ~taken]
    /\ UNCHANGED <<ledgerVars, serviceVars, sessionVars, dashboardVars, trip>>

\* A method of the service has passed its checks and asks for the estimate.
GasInit ==
    /\ Holds(InitWorld)
    /\ now = 1
    /\ stack = <<>>
    /\ last = [op |-> "constructor", err |-> "ok"]
    /\ ServiceIdle
    /\ session = NoSession
    /\ ViewsClosed
    /\ lobby = NoLobby
    /\ trip = NoTrip
    /\ \E op \in GasOps : gas = [NoGas EXCEPT !.op = op, !.pc = "estimate"]

GasNext ==
    \/ \E answer \in GasAnswers : Web3Service_estimateGas(answer)
    \/ \E taken \in BOOLEAN : Web3Service_sendTransaction(taken)

SpecGas == GasInit /\ [][GasNext]_vars

(* ================= the dashboards (ClientDashboard, ==================== *)
(* ================= developer dashboard) =============================== *)
(* From the payment to the session view: the client's dashboard has        *)
(* created the record with status 'paid' and shows Start Call; the         *)
(* developer's dashboard lists the requests with status 'pending'. Every   *)
(* write is an updateDoc of the status without a condition on the record.  *)
(* A dashboard handles the snapshots of the record in the order the store  *)
(* raises them, every subscription of it on each.                          *)

\* The most clicks on Start Call.
MaxStarts == 2

\* What no dashboard touches.
offLobby ==
    <<ui, listeners, ending, paying, submissions, replays, opening, clock,
      ledgerVars, serviceVars, conversionVars>>

\* The client has a subscription to the record: the one of the dashboard's
\* effect while the dashboard is open, the one of handlePaymentComplete, or
\* one of handleStartCall.
clientListens(l) ==
    l.client.at = "dashboard" \/ l.client.paidWatch \/ l.client.watching > 0

\* The store raises the snapshots for a write that takes the status from
\* old to new: for the subscriptions to the record, and for the developer's
\* query where the record enters or leaves status == 'pending'.
LobbyPublish(l, old, new) ==
    [l EXCEPT !.client.inbox = IF clientListens(l) THEN Deliver(@, new) ELSE @,
              !.developer.inbox = IF l.developer.watching THEN Deliver(@, new) ELSE @,
              !.developer.query =
                  IF l.developer.at = "dashboard" /\ "pending" \in {old, new}
                  THEN Deliver(@, new = "pending") ELSE @]

\* handleStartCall: the button is shown while activeCall.status is 'paid' in
\* the dashboard's state, which no handler sets to another status. The
\* status becomes 'pending' and a subscription waits for 'accepted'.
handleStartCall ==
    /\ lobby.client.at = "dashboard"
    /\ lobby.client.start
    /\ lobby.client.watching < MaxStarts
    /\ session' = [session EXCEPT !.status = "pending"]
    /\ lobby' = LobbyPublish([lobby EXCEPT !.client.watching = @ + 1],
                             session.status, "pending")
    /\ UNCHANGED offLobby

\* The client's subscriptions run on the next snapshot. On 'accepted' the
\* one of the effect and the one of handlePaymentComplete navigate to the
\* session view, and those of handleStartCall set the status 'active' with
\* the local time as startTime and navigate; all of them end. On 'rejected'
\* the one of the effect clears activeCall.
onClientSnapshot ==
    LET c == lobby.client
        data == Head(c.inbox)
        handled == [lobby EXCEPT !.client.inbox = Tail(@)]
    IN /\ c.inbox # <<>>
       /\ IF data = "accepted"
          THEN LET gone == [handled EXCEPT
                               !.client = [at |-> "view", start |-> FALSE,
                                           paidWatch |-> FALSE, watching |-> 0,
                                           inbox |-> <<>>]]
               IN IF c.watching > 0
                  THEN /\ session' = [session EXCEPT !.status = "active"]
                       /\ lobby' = LobbyPublish(gone, session.status, "active")
                  ELSE /\ session' = session
                       /\ lobby' = gone
          ELSE /\ session' = session
               /\ lobby' = IF data = "rejected" /\ c.at = "dashboard"
                           THEN [handled EXCEPT !.client.start = FALSE]
                           ELSE handled
       /\ UNCHANGED offLobby

\* The developer's query subscription runs on its next snapshot:
\* setCallRequests with the records that are pending.
onRequestsSnapshot ==
    /\ lobby.developer.query # <<>>
    /\ lobby' = [lobby EXCEPT !.developer.requests = Head(lobby.developer.query),
                              !.developer.query = Tail(@)]
    /\ UNCHANGED <<session, offLobby>>

\* handleAcceptCall of a listed request, up to the await of getDoc.
handleAcceptCall ==
    /\ lobby.developer.at = "dashboard"
    /\ lobby.developer.requests
    /\ lobby.developer.accept = "idle"
    /\ lobby' = [lobby EXCEPT !.developer.accept = "getDoc"]
    /\ UNCHANGED <<session, offLobby>>

\* handleAcceptCall from the answer of getDoc on (the record exists): the
\* status becomes 'accepted' and a subscription waits for 'active'.
handleAcceptCallUpdate ==
    /\ lobby.developer.accept = "getDoc"
    /\ session' = [session EXCEPT !.status = "accepted"]
    /\ lobby' = [LobbyPublish(lobby, session.status, "accepted") EXCEPT
                    !.developer.accept = "idle",
                    !.developer.watching = TRUE]
    /\ UNCHANGED offLobby

\* handleDeclineCall of a listed request: the status becomes 'rejected'.
handleDeclineCall ==
    /\ lobby.developer.at = "dashboard"
    /\ lobby.developer.requests
    /\ session' = [session EXCEPT !.status = "rejected"]
    /\ lobby' = LobbyPublish(lobby, session.status, "rejected")
    /\ UNCHANGED offLobby

\* The subscription of handleAcceptCall runs on its next snapshot: on
\* 'active' the developer navigates to the session view, which ends the
\* subscriptions of the dashboard.
onDeveloperSnapshot ==
    LET d == lobby.developer
    IN /\ d.watching
       /\ d.inbox # <<>>
       /\ lobby' = IF Head(d.inbox) = "active"
                   THEN [lobby EXCEPT !.developer.at = "view",
                                      !.developer.requests = FALSE,
                                      !.developer.watching = FALSE,
                                      !.developer.inbox = <<>>,
                                      !.developer.query = <<>>]
                   ELSE [lobby EXCEPT !.developer.inbox = Tail(@)]
       /\ UNCHANGED <<session, offLobby>>

\* handlePaymentComplete has created the record with status 'paid' and set
\* activeCall, its subscription and the one of the effect have handled
\* their first snapshot; the developer's dashboard is open and lists
\* nothing.
LobbyInit ==
    /\ BookedWorld
    /\ session = [NoSession EXCEPT !.status = "paid"]
    /\ ViewsClosed
    /\ lobby = [NoLobby EXCEPT !.client.at = "dashboard", !.client.start = TRUE,
                               !.client.paidWatch = TRUE,
                               !.developer.at = "dashboard"]
    /\ trip = NoTrip
    /\ gas = NoGas

LobbyNext ==
    \/ handleStartCall
    \/ onClientSnapshot
    \/ onRequestsSnapshot
    \/ handleAcceptCall
    \/ handleAcceptCallUpdate
    \/ handleDeclineCall
    \/ onDeveloperSnapshot

SpecLobby == LobbyInit /\ [][LobbyNext]_vars

(* --------------- processPayment with the service and ledger ----------- *)
\* processPayment of view v calls web3Service.completeCall(callData.callId)
\* with the account the wallet is connected to; the service runs one call
\* at a time here.
processPaymentCalls(v, account) ==
    /\ paying[v] > 0
    /\ Web3Service_completeCall(account, "call-a")

\* web3Service.completeCall returns to processPayment of view v, with the
\* transaction hash or the error it throws.
processPaymentReturns(v) ==
    /\ svcPc = "done"
    /\ req.op = "completeCall"
    /\ processPaymentEnds(v, result.ok)
    /\ svcPc' = "idle"
    /\ req' = NoRequest
    /\ attempts' = 0
    /\ receipt' = "null"
    /\ result' = NoResult
    /\ checks' = NoChecks
    /\ UNCHANGED <<sent, ledgerVars, dashboardVars, conversionVars>>

\* A pending completeCall is mined and runs out of gas: the wallet sends it
\* with the gas limit of the request (the estimate and a fifth, or 80000
\* when the estimate fails) or with the one its user has set. The ledger
\* keeps its state and the receipt has status false.
OutOfGas(i) ==
    /\ i \in 1..Len(sent)
    /\ sent[i].status = "pending"
    /\ sent[i].op = "completeCall"
    /\ stack = <<>>
    /\ sent' = [sent EXCEPT ![i].status = "failed"]
    /\ last' = [op |-> "completeCall", err |-> "out of gas"]
    /\ UNCHANGED <<calls, balance, bal, now, stack, escrowed, released, completions,
                   svcPc, req, attempts, receipt, result, checks, offService>>

SettleNext ==
    \/ \E v \in Views : handleCallEnd(v)
    \/ \E v \in Views : handleCallEndWrite(v)
    \/ \E v \in Views : handleCallEndFinish(v)
    \/ \E v \in Views : onPaymentSnapshot(v)
    \/ \E v \in Views : onStatusSnapshot(v)
    \/ \E v \in Views, a \in EOAs : processPaymentCalls(v, a)
    \/ \E taken \in BOOLEAN : Web3Service_completeCallSend(taken)
    \/ \E answer \in ReceiptAnswers, read \in ReadAnswers :
           Web3Service_completeCallPoll(answer, read)
    \/ \E v \in Views : processPaymentReturns(v)
    \/ \E i \in 1..Len(sent) : Mine(i)
    \/ \E i \in 1..Len(sent) : OutOfGas(i)

\* A running session, its end, and the payment through the service and the
\* ledger.
SpecSettle == SessionInit /\ [][SettleNext]_vars

(* ============================== claims ================================ *)
\* The inputs of createCall that the model draws.
CreateInputs ==
    Accounts \X CallIds \X (Accounts \cup {NullAddr}) \X Durations \X Values

(* C1: per call id at most one completeCall passes its guards and pays:     *)
(* once one has, every completeCall on that id by any account fails; the    *)
(* value sent out for the id is nothing before that and exactly the value   *)
(* createCall took in for the id after it.                                  *)
C1_CompleteOnce ==
    \A id \in CallIds :
        /\ completions[id] <= 1
        /\ completions[id] = 1 =>
               \A s \in Accounts : completeCallError(calls, balance, s, id) # "ok"
        /\ released[id] = IF completions[id] = 1 THEN escrowed[id] ELSE 0

\* A second completeCall by the developer has just failed on a call that
\* was paid.
C1_Witness ==
    /\ stack = <<>>
    /\ last = [op |-> "completeCall", err |-> "CallAlreadyCompleted"]
    /\ \E id \in CallIds : completions[id] = 1 /\ released[id] > 0

(* C2: completeCall on an existing record by an account that is not the    *)
(* record's developer, the client included, fails with Unauthorized and     *)
(* changes no record, no balance.                                           *)
C2_NonDeveloperUnauthorized ==
    \A id \in CallIds, s \in Accounts :
        (callExists(calls, id) /\ s # calls[id].developer) =>
            /\ completeCallError(calls, balance, s, id) = "Unauthorized"
            /\ completeCallWorld(World, s, id) = World

\* A completeCall has just failed with Unauthorized while a funded record
\* waits for its developer.
C2_Witness ==
    /\ last = [op |-> "completeCall", err |-> "Unauthorized"]
    /\ \E id \in CallIds : callExists(calls, id) /\ ~calls[id].isCompleted
    /\ balance > 0

(* C3: createCall with value 0, duration 0, the null developer or the       *)
(* sender as developer fails with the error of the first of these that      *)
(* holds, in this order, and changes no record and no balance.              *)
C3_CreateCallValidation ==
    \A in \in CreateInputs :
        LET s == in[1]  id == in[2]  d == in[3]  dur == in[4]  v == in[5]
            e == createCallError(calls, s, id, d, dur, v)
        IN /\ v = 0 => e = "InvalidAmount"
           /\ (v # 0 /\ dur = 0) => e = "InvalidDuration"
           /\ (v # 0 /\ dur # 0 /\ d = NullAddr) => e = "InvalidDeveloper"
           /\ (v # 0 /\ dur # 0 /\ d # NullAddr /\ s = d) =>
                  e = "SelfBookingNotAllowed"
           /\ (v = 0 \/ dur = 0 \/ d = NullAddr \/ s = d) =>
                  createCallWorld(World, s, id, d, dur, v) = World

\* A createCall has just been refused for self booking, the last of the
\* four tests, with a record already stored.
C3_Witness ==
    /\ last = [op |-> "createCall", err |-> "SelfBookingNotAllowed"]
    /\ \E id \in CallIds : callExists(calls, id)

\* Inputs that pass the four argument tests of createCall.
ValidArgs(s, d, dur, v) == v # 0 /\ dur # 0 /\ d # NullAddr /\ s # d

(* C4: createCall on an id whose record exists and is not completed,        *)
(* started or not, fails and changes no record and no balance; with         *)
(* arguments that pass the argument tests the error is CallAlreadyExists.   *)
C4_NoOverwriteBeforeCompletion ==
    \A in \in CreateInputs :
        LET s == in[1]  id == in[2]  d == in[3]  dur == in[4]  v == in[5]
            e == createCallError(calls, s, id, d, dur, v)
        IN (callExists(calls, id) /\ ~calls[id].isCompleted) =>
               /\ e # "ok"
               /\ ValidArgs(s, d, dur, v) => e = "CallAlreadyExists"
               /\ createCallWorld(World, s, id, d, dur, v) = World

\* A createCall has just failed with CallAlreadyExists while the only
\* stored record is started and not completed.
C4_Witness ==
    /\ last = [op |-> "createCall", err |-> "CallAlreadyExists"]
    /\ \E id \in CallIds :
           /\ calls[id].isActive /\ ~calls[id].isCompleted
           /\ \A j \in CallIds \ {id} : ~callExists(calls, j)

(* C5 as stated: createCall with valid arguments on an id whose record is   *)
(* completed and paid succeeds and stores a fresh record.                   *)
C5_RecreateAfterPaid ==
    \A in \in CreateInputs :
        LET s == in[1]  id == in[2]  d == in[3]  dur == in[4]  v == in[5]
        IN (/\ ValidArgs(s, d, dur, v)
            /\ callExists(calls, id)
            /\ calls[id].isCompleted /\ calls[id].isPaid) =>
               /\ createCallError(calls, s, id, d, dur, v) = "ok"
               /\ createCallWorld(World, s, id, d, dur, v).calls[id] =
                      newCall(s, d, dur, v)

(* C5 amended: createCall with valid arguments on an id whose record is     *)
(* completed and paid fails with CallAlreadyExists and changes no record    *)
(* and no balance.                                                          *)
C5_NoRecreateAfterPaid ==
    \A in \in CreateInputs :
        LET s == in[1]  id == in[2]  d == in[3]  dur == in[4]  v == in[5]
        IN (/\ ValidArgs(s, d, dur, v)
            /\ callExists(calls, id)
            /\ calls[id].isCompleted /\ calls[id].isPaid) =>
               /\ createCallError(calls, s, id, d, dur, v) = "CallAlreadyExists"
               /\ createCallWorld(World, s, id, d, dur, v) = World

\* A createCall has just failed with CallAlreadyExists while every stored
\* record is completed and paid.
C5_Witness ==
    /\ stack = <<>>
    /\ last = [op |-> "createCall", err |-> "CallAlreadyExists"]
    /\ \E id \in CallIds : callExists(calls, id)
    /\ \A id \in CallIds :
           callExists(calls, id) => calls[id].isCompleted /\ calls[id].isPaid

(* C6: a completeCall that passes its guards is by the stored developer on  *)
(* a record with amount a > 0; it sets isCompleted and isPaid, clears the   *)
(* amount and keeps the other fields of the record, takes exactly a from    *)
(* the ledger balance and adds exactly a to the developer's balance, and    *)
(* touches no other record and no other account.                            *)
C6_CompleteCallEffect ==
    \A id \in CallIds, s \in Accounts :
        completeCallError(calls, balance, s, id) = "ok" =>
            LET w == completeCallWorld(World, s, id)
                a == calls[id].amount
                c == calls[id]
            IN /\ s = c.developer
               /\ a > 0
               /\ w.calls[id] =
                      [client |-> c.client, developer |-> c.developer, amount |-> 0,
                       duration |-> c.duration, startTime |-> c.startTime,
                       isActive |-> c.isActive, isCompleted |-> TRUE,
                       isPaid |-> TRUE]
               /\ w.balance = balance - a
               /\ w.bal[c.developer] = bal[c.developer] + a
               /\ \A o \in Accounts \ {c.developer} : w.bal[o] = bal[o]
               /\ \A j \in CallIds \ {id} : w.calls[j] = calls[j]

\* A completeCall has just ended successfully: its record is completed and
\* paid with the amount cleared, and value was sent for it.
C6_Witness ==
    /\ stack = <<>>
    /\ last = [op |-> "completeCall", err |-> "ok"]
    /\ \E id \in CallIds :
           /\ calls[id].isCompleted /\ calls[id].isPaid /\ calls[id].amount = 0
           /\ released[id] > 0
           /\ bal[calls[id].developer] >= released[id]

(* C7: createCall succeeding on an id never used before: doesCallExist is   *)
(* false before and true after, and getCallDetails then returns (sender,    *)
(* developer, value, duration, 0, false, false, false); on an id that has   *)
(* no record getCallDetails fails with CallNotFound and doesCallExist is    *)
(* false.                                                                   *)
C7_CreateThenRead ==
    /\ \A in \in CreateInputs :
           LET s == in[1]  id == in[2]  d == in[3]  dur == in[4]  v == in[5]
               w == createCallWorld(World, s, id, d, dur, v)
           IN (createCallError(calls, s, id, d, dur, v) = "ok" /\ escrowed[id] = 0) =>
                  /\ ~doesCallExist(calls, id)
                  /\ doesCallExist(w.calls, id)
                  /\ getCallDetails(w.calls, id) =
                         <<s, d, v, dur, 0, FALSE, FALSE, FALSE>>
    /\ \A id \in CallIds :
           escrowed[id] = 0 =>
               /\ getCallDetails(calls, id) = "CallNotFound"
               /\ ~doesCallExist(calls, id)

\* A createCall has just succeeded: one id reads back a fresh record and
\* the other id has never been used.
C7_Witness ==
    /\ last = [op |-> "createCall", err |-> "ok"]
    /\ \E id \in CallIds :
           /\ doesCallExist(calls, id)
           /\ getCallDetails(calls, id) =
                  <<calls[id].client, calls[id].developer, escrowed[id],
                    calls[id].duration, 0, FALSE, FALSE, FALSE>>
    /\ \E id \in CallIds : escrowed[id] = 0 /\ ~doesCallExist(calls, id)

(* C8: startCall by any account succeeds exactly when the record exists and *)
(* is neither active nor completed; it then sets isActive and sets          *)
(* startTime to block.timestamp and changes nothing else, the amount and    *)
(* the balances included. Otherwise it fails with CallNotFound (no record), *)
(* CallAlreadyStarted (active, tested first) or CallAlreadyCompleted, and   *)
(* changes nothing.                                                         *)
C8_StartCall ==
    \A id \in CallIds, s \in Accounts :
        LET e == startCallError(calls, s, id)
            w == startCallWorld(World, s, id, now)
            c == calls[id]
        IN /\ e = "ok" <=> (callExists(calls, id) /\ ~c.isActive /\ ~c.isCompleted)
           /\ e = "ok" =>
                  /\ w.calls[id] =
                         [client |-> c.client, developer |-> c.developer,
                          amount |-> c.amount, duration |-> c.duration,
                          startTime |-> now, isActive |-> TRUE,
                          isCompleted |-> c.isCompleted, isPaid |-> c.isPaid]
                  /\ \A j \in CallIds \ {id} : w.calls[j] = calls[j]
                  /\ w.balance = balance /\ w.bal = bal
           /\ ~callExists(calls, id) => e = "CallNotFound"
           /\ (callExists(calls, id) /\ c.isActive) => e = "CallAlreadyStarted"
           /\ (callExists(calls, id) /\ ~c.isActive /\ c.isCompleted) =>
                  e = "CallAlreadyCompleted"
           /\ e # "ok" => w = World

\* A startCall has just succeeded in a block later than the first: the
\* record is active and its startTime is the current time.
C8_Witness ==
    /\ last = [op |-> "startCall", err |-> "ok"]
    /\ now > 1
    /\ \E id \in CallIds :
           calls[id].isActive /\ calls[id].startTime = now /\ calls[id].amount > 0

\* Record d can follow record c in the ledger's history.
Monotone(c, d) ==
    /\ c.isActive => d.isActive
    /\ c.isCompleted => d.isCompleted
    /\ c.isPaid => d.isPaid
    /\ c.startTime # 0 => d.startTime = c.startTime

(* C9: from one ended transaction to the next, for every call id, isActive, *)
(* isCompleted and isPaid never go from true to false and a nonzero         *)
(* startTime never changes; and a startTime goes from zero to nonzero only  *)
(* in a step that is a successful startCall.                                *)
C9_MonotoneFlags ==
    [][\A id \in CallIds :
           /\ Monotone(Committed.calls[id], Committed'.calls[id])
           /\ (calls[id].startTime = 0 /\ calls'[id].startTime # 0) =>
                  last' = [op |-> "startCall", err |-> "ok"]]_vars

\* A record that was started in the first block is completed and paid in a
\* later block and still carries its startTime.
C9_Witness ==
    /\ stack = <<>>
    /\ \E id \in CallIds :
           /\ calls[id].isActive /\ calls[id].isCompleted /\ calls[id].isPaid
           /\ calls[id].startTime # 0 /\ calls[id].startTime < now

(* C10: every stored record has a client and a developer that are not the   *)
(* null address and differ from each other.                                 *)
C10_DistinctParties ==
    \A id \in CallIds :
        callExists(calls, id) =>
            /\ calls[id].client # calls[id].developer
            /\ calls[id].developer # NullAddr
            /\ calls[id].client # NullAddr
            /\ calls[id].client \in Accounts /\ calls[id].developer \in Accounts

\* Both ids hold a record, one of them with a contract as a party.
C10_Witness ==
    /\ \A id \in CallIds : callExists(calls, id)
    /\ \E id \in CallIds : calls[id].developer \in Contracts

(* C11 as stated: completeCall never passes its guards on a record that is  *)
(* not active, so every record with isCompleted set has isActive set and a  *)
(* startTime above zero.                                                    *)
C11_CompletedWasActive ==
    /\ \A id \in CallIds, s \in Accounts :
           completeCallError(calls, balance, s, id) = "ok" => calls[id].isActive
    /\ \A id \in CallIds :
           calls[id].isCompleted => calls[id].isActive /\ calls[id].startTime > 0

\* The step is the revert of the innermost open transfer.
PaymentFailedStep ==
    /\ stack # <<>>
    /\ stack' = SubSeq(stack, 1, Len(stack) - 1)
    /\ last' = [op |-> "completeCall", err |-> "PaymentFailed"]

(* C12: when the transfer of completeCall(id) fails the operation ends with *)
(* PaymentFailed, every record and every balance is as it was when that     *)
(* completeCall began: the record of id is not completed and not paid and   *)
(* its amount is the value escrowed for id, the ledger balance covers it,   *)
(* and completeCall(id) by the developer passes its guards again.           *)
C12_PaymentFailedRestores ==
    [][PaymentFailedStep =>
           LET f == stack[Len(stack)]
           IN /\ calls' = f.pre.calls
              /\ balance' = f.pre.balance
              /\ bal' = f.pre.bal
              /\ ~calls'[f.id].isCompleted
              /\ ~calls'[f.id].isPaid
              /\ calls'[f.id].amount = escrowed'[f.id]
              /\ calls'[f.id].amount > 0
              /\ released'[f.id] = 0
              /\ balance' >= calls'[f.id].amount
              /\ completeCallError(calls', balance', calls'[f.id].developer,
                                   f.id) = "ok"]_vars

\* A completeCall has just failed with PaymentFailed: its record is funded,
\* not completed and not paid, and the ledger holds its amount.
C12_Witness ==
    /\ stack = <<>>
    /\ last = [op |-> "completeCall", err |-> "PaymentFailed"]
    /\ \E id \in CallIds :
           /\ calls[id].developer \in Contracts
           /\ ~calls[id].isCompleted /\ ~calls[id].isPaid
           /\ calls[id].amount > 0 /\ calls[id].amount = escrowed[id]
           /\ balance >= calls[id].amount
           /\ completeCallError(calls, balance, calls[id].developer, id) = "ok"

\* The ids whose transfer is open.
OpenIds == {stack[i].id : i \in 1..Len(stack)}

(* C13: while the transfer of completeCall(id) is open, completeCall(id) by *)
(* any account fails, by the developer with CallAlreadyCompleted, and the   *)
(* stored amount of id is zero; for no id does more value leave the ledger  *)
(* than createCall took in for it; and an operation on another id ends as   *)
(* it does with the record of id in any other state, and changes nothing    *)
(* of id.                                                                   *)
C13_ReentrancyGuard ==
    /\ \A id \in OpenIds :
           /\ calls[id].isCompleted /\ calls[id].isPaid /\ calls[id].amount = 0
           /\ \A s \in Accounts : completeCallError(calls, balance, s, id) # "ok"
           /\ completeCallError(calls, balance, calls[id].developer, id) =
                  "CallAlreadyCompleted"
           /\ completeCallWorld(World, calls[id].developer, id) = World
    /\ \A id \in CallIds : released[id] <= escrowed[id]
    /\ \A id \in OpenIds : \A j \in CallIds \ {id}, s \in Contracts :
           LET other == [calls EXCEPT ![id] = NoCall]
           IN /\ completeCallError(calls, balance, s, j) =
                     completeCallError(other, balance, s, j)
              /\ startCallError(calls, s, j) = startCallError(other, s, j)
              /\ \A d \in Accounts, dur \in Durations, v \in Values :
                     createCallError(calls, s, j, d, dur, v) =
                         createCallError(other, s, j, d, dur, v)
              /\ completeCallWorld(World, s, j).calls[id] = calls[id]
              /\ startCallWorld(World, s, j, now).calls[id] = calls[id]

\* Inside the one open transfer the developer's code has just called
\* completeCall on the id being paid, and it failed.
C13_Witness ==
    /\ Len(stack) = 1
    /\ last = [op |-> "completeCall", err |-> "CallAlreadyCompleted"]
    /\ calls[stack[1].id].isCompleted
    /\ released[stack[1].id] = escrowed[stack[1].id]
    /\ \A j \in CallIds \ {stack[1].id} : ~calls[j].isCompleted

(* C14 as stated: no completeCall passes its guards, and no value is sent   *)
(* to the developer of a call, unless the call has been started and         *)
(* duration seconds have passed since its startTime.                        *)
C14_HeldUntilDurationMet ==
    /\ \A id \in CallIds, s \in Accounts :
           completeCallError(calls, balance, s, id) = "ok" =>
               /\ calls[id].isActive
               /\ now >= calls[id].startTime + calls[id].duration
    /\ \A id \in CallIds :
           released[id] > 0 =>
               /\ calls[id].isActive
               /\ now >= calls[id].startTime + calls[id].duration

\* The error completeCall throws with message m.
CompleteCallFailure(m) == [ok |-> FALSE, text |-> <<"Failed to complete call: ", m>>]

(* C15 as stated: Web3Service.completeCall returns the transaction          *)
(* reference only after a receipt with success status and a re-read of the  *)
(* record with isPaid = true; with a receipt of failure status it throws    *)
(* 'Transaction failed', and with a successful receipt and isPaid read      *)
(* false it throws 'Payment not confirmed after transaction'.               *)
C15_SuccessOnlyIfConfirmed ==
    (svcPc = "done" /\ req.op = "completeCall") =>
        /\ result.ok => (receipt = "success" /\ checks.isPaid = "true")
        /\ receipt = "failed" => result = CompleteCallFailure("Transaction failed")
        /\ (receipt = "success" /\ checks.isPaid = "false") =>
               result = CompleteCallFailure("Payment not confirmed after transaction")

\* The step is a turn of the confirmation loop.
PollStep == svcPc = "poll" /\ <<attempts, receipt, svcPc>>' # <<attempts, receipt, svcPc>>

(* C16: the confirmation loop of Web3Service.completeCall ends: attempts    *)
(* never exceeds 30 and the loop is entered only below 30; a turn whose     *)
(* poll throws or finds no receipt adds one to attempts and the loop goes   *)
(* on while attempts is below 30; when the loop ends without a receipt,     *)
(* attempts is 30 and completeCall throws 'Transaction not confirmed after  *)
(* 30 seconds'; and once polling has begun, completeCall eventually ends.   *)
C16_PollingTerminates ==
    /\ [](/\ attempts <= maxAttempts
          /\ svcPc = "poll" => (attempts < maxAttempts /\ receipt = "null")
          /\ checks.isPaid = "true" => attempts < maxAttempts
          /\ (svcPc = "done" /\ sent # <<>> /\ req.op = "completeCall"
                /\ receipt = "null") =>
                 /\ attempts = maxAttempts
                 /\ result = CompleteCallFailure(
                                 "Transaction not confirmed after 30 seconds"))
    /\ [][PollStep =>
              /\ attempts' \in {attempts, attempts + 1}
              /\ attempts' = attempts => svcPc' = "done"
              /\ receipt' = "null" =>
                     /\ attempts' = attempts + 1
                     /\ svcPc' = IF attempts' < maxAttempts THEN "poll" ELSE "done"]_vars
    /\ (svcPc = "poll") ~> (svcPc = "done")

\* Thirty polls have found no receipt, although the transaction was mined
\* meanwhile, and completeCall has thrown the not-confirmed error.
C16_Witness ==
    /\ svcPc = "done"
    /\ req.op = "completeCall"
    /\ attempts = maxAttempts
    /\ receipt = "null"
    /\ sent[1].status = "success"
    /\ result = CompleteCallFailure("Transaction not confirmed after 30 seconds")

(* C17: on every ledger state, for every existing record and every account, *)
(* the local check of Web3Service.completeCall passes exactly when the      *)
(* guards of the ledger's completeCall pass for that account; a call whose  *)
(* check did not pass has submitted nothing and has thrown, and a call      *)
(* whose check passed submits its transaction unless the wallet refuses it. *)
C17_LocalCheckMirrorsLedger ==
    /\ \A id \in CallIds, a \in Accounts :
           callExists(calls, id) =>
               (localCheckError(calls, id, balance, a) = "ok"
                    <=> completeCallError(calls, balance, a, id) = "ok")
    /\ req.op = "completeCall" =>
           /\ checks.local # "ok" =>
                  /\ sent = <<>>
                  /\ svcPc = "done"
                  /\ result = CompleteCallFailure(checks.local)
           /\ sent # <<>> => checks.local = "ok"
           /\ (checks.local = "ok" /\ svcPc # "send") =>
                  \/ Len(sent) = 1
                  \/ result = CompleteCallFailure("User denied transaction signature")

\* The client of a funded call has asked the service to complete it: the
\* local check has refused, as the ledger would, and nothing was submitted.
C17_Witness ==
    /\ svcPc = "done"
    /\ req.op = "completeCall"
    /\ checks.local = "Only the developer can complete the call"
    /\ sent = <<>>
    /\ completeCallError(calls, balance, req.account, convertToBytes32(req.callId)) =
           "Unauthorized"
    /\ completeCallError(calls, balance, calls[convertToBytes32(req.callId)].developer,
                         convertToBytes32(req.callId)) = "ok"

(* C18 as stated: Web3Service.createCall submits a transaction only after   *)
(* the input validation and the dry run have both passed; when the dry run  *)
(* fails nothing is submitted and the caller receives the error             *)
(* 'Transaction would fail: <reason>'.                                      *)
C18_DryRunGatesSubmission ==
    req.op = "createCall" =>
        /\ sent # <<>> => (checks.local = "ok" /\ checks.dryRun = "ok")
        /\ checks.dryRun \notin {"none", "ok"} =>
               /\ sent = <<>>
               /\ svcPc = "done"
               /\ ~result.ok
               /\ result.text[1] = "Transaction would fail: "

(* C19 as stated: for one session, under any interleaving of end triggers   *)
(* and any duplicated or replayed store notifications, no more than one     *)
(* completion transaction submission (web3Service.completeCall) is made in  *)
(* total across the developer's end routine and the developer's             *)
(* requiresPayment subscription.                                            *)
C19_OneSubmission ==
    submissions["client"] + submissions["developer"] <= 1

(* C20: a view whose user is not the session's developer never calls        *)
(* web3Service.completeCall; when the client has ended the session the      *)
(* record is 'completed' and marked requiresPayment until a payment is      *)
(* recorded as released.                                                    *)
C20_ClientNeverSubmits ==
    /\ submissions["client"] = 0
    /\ paying["client"] = 0
    /\ listeners["client"].payment = NoListener
    /\ session.endedBy = "client" =>
           /\ session.status = "completed"
           /\ session.requiresPayment \/ session.paymentReleased

\* The client has ended the session and has left the view; the record asks
\* for the payment and the client has submitted nothing.
C20_Witness ==
    /\ session.endedBy = "client"
    /\ session.status = "completed"
    /\ session.requiresPayment
    /\ ~ui["client"].mounted
    /\ ending["client"].pc = "idle"
    /\ submissions["client"] = 0

(* C21 as stated, in the form a finite run refutes: when the client has     *)
(* ended the session while the developer's view was in it, the developer's  *)
(* view does not leave the session without having submitted the completion  *)
(* transaction (once it has left, it observes nothing and submits nothing). *)
C21_DeveloperPaysAfterClientEnd ==
    (session.endedBy = "client" /\ ~ui["developer"].mounted) =>
        submissions["developer"] > 0

\* Every end request of the developer's view has run to its end and failed,
\* the client has made none, and the store has repeated no notification.
AfterFailedPayment ==
    /\ session.paymentError
    /\ ui["developer"].mounted
    /\ ~ui["developer"].isCallEnding
    /\ ending["developer"].pc = "idle"
    /\ paying["developer"] = 0
    /\ ~ui["client"].isCallEnding
    /\ replays = 0

(* C22 as stated: after a completion submission has failed, no further      *)
(* completion transaction is submitted unless the end routine is started    *)
(* anew; the write of paymentError does not itself cause a submission.      *)
C22_NoAutomaticRetry ==
    [][AfterFailedPayment => submissions' = submissions]_vars

\* C25: every end of a session by the expiry of its duration records the
\* reason 'timeout' and every end by the End Call button records 'manual',
\* and a handler that finds the time used up when it first reads startTime
\* ends the session: the view is in its end routine or has written the end.
C25_EndReasonFollowsCause ==
    \A v \in Views :
        /\ ending[v].pc # "idle" =>
               (ending[v].cause = "expiry" <=> ending[v].reason = "timeout")
        /\ (opening[v].expired /\ ui[v].mounted) =>
               (ending[v].pc # "idle" \/ ending[v].writes > 0)

\* C26: a countdown starts at duration * 60 less the seconds the store's
\* clock has counted since the session was set active, whatever the local
\* clocks show.
C26_CountdownFromServerTime ==
    \A v \in Views :
        opening[v].countdown.started =>
            opening[v].countdown.initial =
                clock.duration * SecondsPerMinute
                    - (opening[v].countdown.startedAt - clock.startedAt)

\* C27: a view that has been left has no subscription to the record and no
\* countdown interval any more.
C27_ExitTearsDown ==
    \A v \in Views :
        ~ui[v].mounted =>
            /\ \A k \in Kinds : ~listeners[v][k].on
            /\ ui[v].intervals = {}

\* C29: the end routines of one view write the status 'completed' to the
\* record at most once.
C29_OneCompletedWrite == \A v \in Views : ending[v].writes <= 1

\* C30: a session record with paymentReleased set belongs to a call that
\* the ledger has paid: isPaid is set in the ledger's record of it.
C30_ReleasedMeansPaid ==
    session.paymentReleased => calls[convertToBytes32("call-a")].isPaid

\* C23: while the session record has status 'active', startCall has been
\* run for its call: the ledger's record of the call has isActive set.
C23_ActiveMeansStarted ==
    session.status = "active" => calls[convertToBytes32("call-a")].isActive

\* The edges of the status of a session record.
StatusEdges ==
    {<<"paid", "pending">>, <<"pending", "accepted">>, <<"pending", "rejected">>,
     <<"accepted", "active">>, <<"active", "completed">>}

\* C24: the status of the session record changes along the edges paid ->
\* pending, pending -> accepted, pending -> rejected, accepted -> active and
\* active -> completed only.
C24_StatusEdgesOnly ==
    [][session'.status # session.status =>
           <<session.status, session'.status>> \in StatusEdges]_vars

\* C28: an amount that createCall has taken and the ledger has stored is
\* read back by getCallDetails of the service, before the call is completed,
\* as the amount that was entered, to one base unit.
C28_AmountRoundTrip ==
    trip.pc = "read" =>
        /\ trip.read - toWei(trip.amount) <= 1
        /\ toWei(trip.amount) - trip.read <= 1

\* C31: a dry run that the ledger refuses with one of its custom errors is
\* reported with the message of that error wherever the reason is decoded
\* from the revert data (the reason is the node's bare message otherwise).
C31_ErrorDecoding ==
    (/\ svcPc = "done"
     /\ req.op = "createCall"
     /\ checks.dryRun \in ErrorKinds
     /\ Len(result.text) = 2) =>
        result.text[2] \in {customErrorMessage(checks.dryRun),
                            "Returned error: execution reverted"}

\* The sum of the stored amounts of the records of ids.
RECURSIVE SumAmounts(_, _)
SumAmounts(cs, ids) ==
    IF ids = {} THEN 0
    ELSE LET id == CHOOSE i \in ids : TRUE
         IN cs[id].amount + SumAmounts(cs, ids \ {id})

(* C32: in every state the ledger's balance is the sum of the stored        *)
(* amounts of all records, createCall being the only way value enters, and  *)
(* completeCall by no account on no id fails with "Insufficient contract    *)
(* balance".                                                                *)
C32_EscrowSolvency ==
    /\ balance = SumAmounts(calls, CallIds)
    /\ \A id \in CallIds, s \in Accounts :
           completeCallError(calls, balance, s, id) # "Insufficient contract balance"
    /\ last.err # "Insufficient contract balance"

\* One call has been paid out and the other still holds its amount, which
\* is all the ledger holds.
C32_Witness ==
    /\ stack = <<>>
    /\ \E id \in CallIds, j \in CallIds :
           /\ calls[id].isPaid /\ released[id] > 0
           /\ calls[j].amount > 0 /\ balance = calls[j].amount

(* C33: every stored record has isCompleted = isPaid and has amount 0       *)
(* exactly when isPaid; so completeCall by the developer of a stored record *)
(* passes its guards or fails with CallAlreadyCompleted, and no completeCall *)
(* fails with "Payment already released" or "No payment amount available".  *)
C33_PaidIffCompleted ==
    /\ \A id \in CallIds :
           callExists(calls, id) =>
               /\ calls[id].isCompleted = calls[id].isPaid
               /\ (calls[id].amount = 0) = calls[id].isPaid
               /\ completeCallError(calls, balance, calls[id].developer, id) \in
                      {"ok", "CallAlreadyCompleted"}
    /\ \A id \in CallIds, s \in Accounts :
           completeCallError(calls, balance, s, id) \notin
               {"Payment already released", "No payment amount available"}
    /\ last.op = "completeCall" =>
           last.err \in {"ok", "transfer open", "CallNotFound", "Unauthorized",
                         "CallAlreadyCompleted", "PaymentFailed"}

\* The developer's second completeCall on a paid record has just failed
\* while the other record is funded and not completed.
C33_Witness ==
    /\ stack = <<>>
    /\ last = [op |-> "completeCall", err |-> "CallAlreadyCompleted"]
    /\ \E id \in CallIds, j \in CallIds :
           /\ calls[id].isCompleted /\ calls[id].isPaid /\ calls[id].amount = 0
           /\ callExists(calls, j) /\ ~calls[j].isCompleted /\ calls[j].amount > 0

\* What account a has put into escrow as a client, and what it was sent as
\* a developer.
RECURSIVE PaidIn(_, _)
PaidIn(a, ids) ==
    IF ids = {} THEN 0
    ELSE LET id == CHOOSE i \in ids : TRUE
         IN (IF calls[id].client = a THEN escrowed[id] ELSE 0) + PaidIn(a, ids \ {id})

RECURSIVE PaidOut(_, _)
PaidOut(a, ids) ==
    IF ids = {} THEN 0
    ELSE LET id == CHOOSE i \in ids : TRUE
         IN (IF calls[id].developer = a THEN released[id] ELSE 0)
                + PaidOut(a, ids \ {id})

\* Every account holds what it started with, less what it escrowed as a
\* client, plus what completeCall sent it as the stored developer.
ValueAccounted ==
    \A a \in Accounts :
        bal[a] = InitWorld.bal[a] - PaidIn(a, CallIds) + PaidOut(a, CallIds)

(* C34: value leaves the ledger only in a completeCall by the stored        *)
(* developer that passes its guards, and goes to that developer alone: in   *)
(* every state each account holds its initial value less what it escrowed   *)
(* as a client plus what it was sent as a stored developer, so nothing      *)
(* returns to a client or to the owner; no createCall and no startCall      *)
(* lowers the ledger's balance, raises an account's or changes the amount   *)
(* of a stored record, a completeCall does so only for the record's         *)
(* developer, and the revert of an open completeCall gives every account    *)
(* what it held when that completeCall began.                               *)
C34_ValueLeavesOnlyToDeveloper ==
    /\ ValueAccounted
    /\ \A id \in CallIds, s \in Accounts :
           LET paid == completeCallWorld(World, s, id)
               started == startCallWorld(World, s, id, now)
               developer == calls[id].developer
           IN /\ (paid.balance # balance \/ paid.bal # bal
                      \/ paid.calls[id].amount # calls[id].amount) =>
                     /\ s = developer
                     /\ completeCallError(calls, balance, s, id) = "ok"
                     /\ paid.balance = balance - calls[id].amount
                     /\ paid.bal = [bal EXCEPT ![developer] = @ + calls[id].amount]
              /\ started.balance = balance /\ started.bal = bal
              /\ started.calls[id].amount = calls[id].amount
              /\ \A d \in Accounts \cup {NullAddr}, dur \in Durations, v \in Values :
                     LET created == createCallWorld(World, s, id, d, dur, v)
                     IN /\ created.balance >= balance
                        /\ \A a \in Accounts : created.bal[a] <= bal[a]
                        /\ callExists(calls, id) =>
                               created.calls[id].amount = calls[id].amount
    /\ \A i \in 1..Len(stack) : PaymentFailedWorld(stack[i]).bal = stack[i].pre.bal

\* The client has tried to complete a funded call and failed; the amount is
\* still in the ledger, and every other call has been paid out.
C34_Witness ==
    /\ stack = <<>>
    /\ last = [op |-> "completeCall", err |-> "Unauthorized"]
    /\ \E id \in CallIds :
           /\ callExists(calls, id) /\ calls[id].amount > 0
           /\ balance = calls[id].amount
           /\ released[id] = 0
           /\ \A j \in CallIds \ {id} : calls[j].isPaid

(* C35: an operation on one call id, passing its guards or failing, leaves  *)
(* the record of every other id as it was: createCall, startCall and        *)
(* completeCall by any account with any arguments, and the revert of an     *)
(* open completeCall with respect to the state that completeCall began in.  *)
C35_Frame ==
    /\ \A id \in CallIds, j \in CallIds, s \in Accounts :
           j # id =>
               /\ startCallWorld(World, s, id, now).calls[j] = calls[j]
               /\ completeCallWorld(World, s, id).calls[j] = calls[j]
               /\ \A d \in Accounts \cup {NullAddr}, dur \in Durations, v \in Values :
                      createCallWorld(World, s, id, d, dur, v).calls[j] = calls[j]
    /\ \A i \in 1..Len(stack) :
           PaymentFailedWorld(stack[i]).calls = stack[i].pre.calls

\* A startCall has just passed on one id while the record of the other id,
\* created before it, is not started.
C35_Witness ==
    /\ last = [op |-> "startCall", err |-> "ok"]
    /\ \E id \in CallIds, j \in CallIds :
           /\ j # id
           /\ calls[id].isActive /\ calls[id].startTime = now
           /\ callExists(calls, j) /\ ~calls[j].isActive /\ calls[j].startTime = 0

\* The fields of a record that createCall sets and nothing changes.
Parties(c) == <<c.client, c.developer, c.duration>>

(* C36: a stored record stays stored with its client, developer and        *)
(* duration: every createCall, startCall and completeCall, by any account   *)
(* on any id with any arguments, leaves these as they are, and inside an    *)
(* open completeCall every record that was stored when it began is stored   *)
(* with the same three fields, so its revert removes none of them.          *)
C36_RecordIsForever ==
    \A id \in CallIds :
        /\ callExists(calls, id) =>
               \A j \in CallIds, s \in Accounts :
                   /\ Parties(startCallWorld(World, s, j, now).calls[id]) =
                          Parties(calls[id])
                   /\ Parties(completeCallWorld(World, s, j).calls[id]) =
                          Parties(calls[id])
                   /\ \A d \in Accounts \cup {NullAddr}, dur \in Durations,
                         v \in Values :
                          Parties(createCallWorld(World, s, j, d, dur, v).calls[id]) =
                              Parties(calls[id])
        /\ \A i \in 1..Len(stack) :
               callExists(stack[i].pre.calls, id) =>
                   /\ Parties(calls[id]) = Parties(stack[i].pre.calls[id])
                   /\ Parties(PaymentFailedWorld(stack[i]).calls[id]) =
                          Parties(stack[i].pre.calls[id])

\* A createCall has just failed on the one stored record, which is started,
\* completed and paid.
C36_Witness ==
    /\ stack = <<>>
    /\ last = [op |-> "createCall", err |-> "CallAlreadyExists"]
    /\ \E id \in CallIds :
           /\ calls[id].isCompleted /\ calls[id].isPaid
           /\ calls[id].isActive
           /\ \A j \in CallIds \ {id} : ~callExists(calls, j)

(* C37: in one view at most one countdown interval runs at any time, and it *)
(* is the one timerInterval.current names, whatever the order of the        *)
(* snapshots and of the three handlers that start the countdown.            *)
C37_OneInterval ==
    \A v \in Views :
        /\ Cardinality(ui[v].intervals) <= 1
        /\ ui[v].intervals \subseteq {ui[v].timerInterval}

\* startTimer has run in a view whose interval was running, and one
\* interval runs there now.
C37_Witness ==
    \E v \in Views :
        /\ opening[v].countdown.cancelled
        /\ ui[v].intervals = {ui[v].timerInterval}

\* The countdown of view v is running.
Running(v) == ui[v].mounted /\ ui[v].intervals # {} /\ ui[v].timeLeft > 0

C39_GasLimit ==
    gas.pc \in {"submit", "done"} =>
        /\ (gas.op = "completeCall" /\ gas.estimate[1] = "error") =>
               /\ gas.gasLimit = fallbackGas
               /\ gas.pc = "done" => gas.submitted \/ gas.thrown
        /\ (gas.op = "completeCall" /\ gas.estimate[1] # "error") =>
               gas.gasLimit = withBuffer(gas.estimate[2])
        /\ (gas.op # "completeCall" /\ gas.estimate[1] = "error") =>
               gas.pc = "done" /\ ~gas.submitted /\ gas.thrown

====
